---------------------------- MODULE Spec2Model ----------------------------
(***************************************************************************)
(* Fraud-detection service: rule engine (services/fraud_detection.py),     *)
(* risk scoring engine with its velocity tracker                           *)
(* (services/risk_scoring.py), decision fusion and the request handler     *)
(* (app.py).                                                               *)
(*                                                                         *)
(* Representation.                                                         *)
(*  - Money is a Decimal with two fractional digits: an integer number of  *)
(*    cents.                                                               *)
(*  - Scores are Decimals / floats in [0, 1.1]: an integer number of       *)
(*    1/Scale units (0.4 is 4000).  Every product weight x value and every *)
(*    fused score the model can form is a whole number of units.           *)
(*  - Time is an integer number of minutes; a datetime is a record         *)
(*    [t |-> minutes, aware |-> has tzinfo].                               *)
(*  - A str is a TLA+ string; CharsOf gives its characters, so that       *)
(*    upper(), split() and the test `kw in s` are computed, not assumed.   *)
(***************************************************************************)
EXTENDS Integers, Sequences, FiniteSets, TLC

VARIABLES
    transactions_db,      \* app.py: list of stored result records
    alerts_db,            \* app.py: list of alerts
    transaction_history,  \* RiskScoringService.transaction_history: card -> list of datetimes
    is_trained,           \* FraudDetectionMLModel.is_trained
    response,             \* outcome of the last HTTP request handled
    call,                 \* arguments of the function application under check
    ret,                  \* its result
    heap,                 \* list objects of the velocity tracker, by identity
    hist_ref,             \* transaction_history as card -> list identity (0: key absent)
    threads               \* request threads inside _analyze_transaction_velocity

vars == <<transactions_db, alerts_db, transaction_history, is_trained, response,
          call, ret, heap, hist_ref, threads>>

svcVars == <<transactions_db, alerts_db, transaction_history, is_trained, response>>
concVars == <<heap, hist_ref, threads>>

---------------------------------------------------------------------------
(* Numbers *)

Scale == 10000

\* Decimal('0.x') / 0.x literals of the source, in units
Units(tenths) == tenths * (Scale \div 10)

Min(a, b) == IF a <= b THEN a ELSE b
Max(a, b) == IF a >= b THEN a ELSE b

RECURSIVE SumSeq(_)
SumSeq(s) == IF s = <<>> THEN 0 ELSE Head(s) + SumSeq(Tail(s))

---------------------------------------------------------------------------
(* Strings *)

\* The texts that occur as merchant names and locations: a str value is held as
\* a TLA+ string and CharsOf gives its characters.
StrTable ==
    {
      <<"Luxury Store",
        <<"L", "u", "x", "u", "r", "y", " ", "S", "t", "o", "r", "e">>>>,
      <<"Cash Advance",
        <<"C", "a", "s", "h", " ", "A", "d", "v", "a", "n", "c", "e">>>>,
      <<"Netflix.com",
        <<"N", "e", "t", "f", "l", "i", "x", ".", "c", "o", "m">>>>,
      <<"ATM Cash Point",
        <<"A", "T", "M", " ", "C", "a", "s", "h", " ", "P", "o", "i", "n", "t">>>>,
      <<"Best Buy",
        <<"B", "e", "s", "t", " ", "B", "u", "y">>>>,
      <<"New York, US",
        <<"N", "e", "w", " ", "Y", "o", "r", "k", ",", " ", "U", "S">>>>,
      <<"Moscow, Russia",
        <<"M", "o", "s", "c", "o", "w", ",", " ", "R", "u", "s", "s", "i", "a">>>>,
      <<"Los Gatos, CA, US",
        <<"L", "o", "s", " ", "G", "a", "t", "o", "s", ",", " ", "C", "A", ",", " ", "U", "S">>>>,
      <<"Unknown Location",
        <<"U", "n", "k", "n", "o", "w", "n", " ", "L", "o", "c", "a", "t", "i", "o", "n">>>>,
      <<"Brussels, Belgium",
        <<"B", "r", "u", "s", "s", "e", "l", "s", ",", " ", "B", "e", "l", "g", "i", "u", "m">>>>,
      <<"London, UK",
        <<"L", "o", "n", "d", "o", "n", ",", " ", "U", "K">>>>,
      <<"Unknown City, Russia",
        <<"U", "n", "k", "n", "o", "w", "n", " ", "C", "i", "t", "y", ",", " ", "R", "u", "s", "s", "i", "a">>>>,
      <<"Amazon.com",
        <<"A", "m", "a", "z", "o", "n", ".", "c", "o", "m">>>>,
      <<"Seattle, WA, US",
        <<"S", "e", "a", "t", "t", "l", "e", ",", " ", "W", "A", ",", " ", "U", "S">>>>,
      <<"Apple Store",
        <<"A", "p", "p", "l", "e", " ", "S", "t", "o", "r", "e">>>>,
      <<"Cupertino, CA, US",
        <<"C", "u", "p", "e", "r", "t", "i", "n", "o", ",", " ", "C", "A", ",", " ", "U", "S">>>>,
      <<"Starbucks Coffee",
        <<"S", "t", "a", "r", "b", "u", "c", "k", "s", " ", "C", "o", "f", "f", "e", "e">>>>,
      <<"New York, NY, US",
        <<"N", "e", "w", " ", "Y", "o", "r", "k", ",", " ", "N", "Y", ",", " ", "U", "S">>>>,
      <<"Target Store",
        <<"T", "a", "r", "g", "e", "t", " ", "S", "t", "o", "r", "e">>>>,
      <<"Minneapolis, MN, US",
        <<"M", "i", "n", "n", "e", "a", "p", "o", "l", "i", "s", ",", " ", "M", "N", ",", " ", "U", "S">>>>,
      <<"Richfield, MN, US",
        <<"R", "i", "c", "h", "f", "i", "e", "l", "d", ",", " ", "M", "N", ",", " ", "U", "S">>>>,
      <<"Uber Technologies",
        <<"U", "b", "e", "r", " ", "T", "e", "c", "h", "n", "o", "l", "o", "g", "i", "e", "s">>>>,
      <<"San Francisco, CA, US",
        <<"S", "a", "n", " ", "F", "r", "a", "n", "c", "i", "s", "c", "o", ",", " ", "C", "A", ",", " ", "U", "S">>>>,
      <<"Walmart Supercenter",
        <<"W", "a", "l", "m", "a", "r", "t", " ", "S", "u", "p", "e", "r", "c", "e", "n", "t", "e", "r">>>>,
      <<"Bentonville, AR, US",
        <<"B", "e", "n", "t", "o", "n", "v", "i", "l", "l", "e", ",", " ", "A", "R", ",", " ", "U", "S">>>>,
      <<"Luxury Casino",
        <<"L", "u", "x", "u", "r", "y", " ", "C", "a", "s", "i", "n", "o">>>>,
      <<"Las Vegas, NV, US",
        <<"L", "a", "s", " ", "V", "e", "g", "a", "s", ",", " ", "N", "V", ",", " ", "U", "S">>>>,
      <<"Spotify Premium",
        <<"S", "p", "o", "t", "i", "f", "y", " ", "P", "r", "e", "m", "i", "u", "m">>>>,
      <<"Stockholm, Sweden",
        <<"S", "t", "o", "c", "k", "h", "o", "l", "m", ",", " ", "S", "w", "e", "d", "e", "n">>>>,
      <<"Samsung Electronics",
        <<"S", "a", "m", "s", "u", "n", "g", " ", "E", "l", "e", "c", "t", "r", "o", "n", "i", "c", "s">>>>,
      <<"Seoul, South Korea",
        <<"S", "e", "o", "u", "l", ",", " ", "S", "o", "u", "t", "h", " ", "K", "o", "r", "e", "a">>>>,
      <<"Beijing, China",
        <<"B", "e", "i", "j", "i", "n", "g", ",", " ", "C", "h", "i", "n", "a">>>>,
      <<"McDonald's",
        <<"M", "c", "D", "o", "n", "a", "l", "d", "'", "s">>>>,
      <<"Chicago, IL, US",
        <<"C", "h", "i", "c", "a", "g", "o", ",", " ", "I", "L", ",", " ", "U", "S">>>>,
      <<"Crypto Exchange",
        <<"C", "r", "y", "p", "t", "o", " ", "E", "x", "c", "h", "a", "n", "g", "e">>>>,
      <<"Shell Gas Station",
        <<"S", "h", "e", "l", "l", " ", "G", "a", "s", " ", "S", "t", "a", "t", "i", "o", "n">>>>,
      <<"Houston, TX, US",
        <<"H", "o", "u", "s", "t", "o", "n", ",", " ", "T", "X", ",", " ", "U", "S">>>>,
      <<"Phoenix, AZ, US",
        <<"P", "h", "o", "e", "n", "i", "x", ",", " ", "A", "Z", ",", " ", "U", "S">>>>
    }

Strs == {p[1] : p \in StrTable}
CharsOf == [n \in Strs |-> (CHOOSE p \in StrTable : p[1] = n)[2]]

LowerCase == <<"a", "b", "c", "d", "e", "f", "g", "h", "i", "j", "k", "l", "m",
               "n", "o", "p", "q", "r", "s", "t", "u", "v", "w", "x", "y", "z">>
UpperCase == <<"A", "B", "C", "D", "E", "F", "G", "H", "I", "J", "K", "L", "M",
               "N", "O", "P", "Q", "R", "S", "T", "U", "V", "W", "X", "Y", "Z">>

\* str.upper(), one character
UpperChar(c) ==
    IF \E i \in 1..26 : LowerCase[i] = c
    THEN UpperCase[CHOOSE i \in 1..26 : LowerCase[i] = c]
    ELSE c

\* str.upper(), on the characters
upper(s) == [i \in 1..Len(s) |-> UpperChar(s[i])]

\* `needle in hay` for str
Contains(needle, hay) ==
    \E i \in 0..(Len(hay) - Len(needle)) :
        SubSeq(hay, i + 1, i + Len(needle)) = needle

\* str.split(): the maximal runs of non-blank characters, as a set of words
IsWordAt(s, i, j) ==
    /\ i <= j
    /\ \A k \in i..j : s[k] # " "
    /\ (i = 1 \/ s[i - 1] = " ")
    /\ (j = Len(s) \/ s[j + 1] = " ")

split(s) ==
    {SubSeq(s, p[1], p[2]) : p \in {q \in (1..Len(s)) \X (1..Len(s)) : IsWordAt(s, q[1], q[2])}}

\* s.upper() and s.upper().split() of every text, computed once
UpperOf == [n \in Strs |-> upper(CharsOf[n])]
UpperWordsOf == [n \in Strs |-> split(UpperOf[n])]

\* merchants and locations the checked functions are applied to
Merchants == {"Luxury Store", "Cash Advance", "Netflix.com", "ATM Cash Point"}
Locations == {"New York, US", "Moscow, Russia", "Los Gatos, CA, US", "Unknown Location",
              "Brussels, Belgium", "Unknown City, Russia"}

---------------------------------------------------------------------------
(* Rule engine: services/fraud_detection.py *)

high_risk_countries ==
    { <<"R", "U">>, <<"C", "N">>, <<"I", "R">>, <<"K", "P">>, <<"S", "Y">>,
      <<"R", "U", "S", "S", "I", "A">>, <<"C", "H", "I", "N", "A">>,
      <<"I", "R", "A", "N">> }

high_risk_merchants ==
    { <<"C", "A", "S", "H", " ", "A", "D", "V", "A", "N", "C", "E">>,
      <<"C", "A", "S", "I", "N", "O">>,
      <<"G", "A", "M", "B", "L", "I", "N", "G">>,
      <<"C", "R", "Y", "P", "T", "O">>,
      <<"A", "D", "U", "L", "T">>,
      <<"U", "N", "K", "N", "O", "W", "N", " ", "M", "E", "R", "C", "H", "A", "N", "T">> }

\* _is_high_risk_location and _is_high_risk_merchant; each is a function of the
\* text alone and is tabulated over the texts
is_high_risk_location ==
    [location \in Strs |->
        \E country \in high_risk_countries : Contains(country, UpperOf[location])]

is_high_risk_merchant ==
    [merchant \in Strs |->
        \E risk_merchant \in high_risk_merchants :
            Contains(risk_merchant, UpperOf[merchant])]

\* FraudDetectionService._get_risk_level
rule_get_risk_level(score) ==
    IF score >= Units(7) THEN "HIGH"
    ELSE IF score >= Units(4) THEN "MEDIUM"
    ELSE "LOW"

\* the amount branch with its two tests in the other order
RuleAmountStepSwapped(amount) ==
    IF amount > 200000 THEN <<Units(2), <<"elevated_amount">>>>
    ELSE IF amount > 500000 THEN <<Units(4), <<"high_amount">>>>
    ELSE <<0, <<>>>>

\* the amount branch of analyze_transaction: <<increment, factor names>>
RuleAmountStep(amount) ==
    IF amount > 500000 THEN <<Units(4), <<"high_amount">>>>
    ELSE IF amount > 200000 THEN <<Units(2), <<"elevated_amount">>>>
    ELSE <<0, <<>>>>

RuleLocationStep(location) ==
    IF is_high_risk_location[location] THEN <<Units(4), <<"risky_location">>>>
    ELSE <<0, <<>>>>

RuleMerchantStep(merchant) ==
    IF is_high_risk_merchant[merchant] THEN <<Units(3), <<"risky_merchant">>>>
    ELSE <<0, <<>>>>

\* FraudDetectionService.analyze_transaction
fraud_analyze_transaction(tx) ==
    LET a == RuleAmountStep(tx.amount)
        l == RuleLocationStep(tx.location)
        m == RuleMerchantStep(tx.merchant)
        risk_score == a[1] + l[1] + m[1]
    IN  [ risk_score |-> risk_score,
          risk_level |-> rule_get_risk_level(risk_score),
          factors    |-> a[2] \o l[2] \o m[2] ]

---------------------------------------------------------------------------
(* Time *)

FiveMinutes == 5        \* timedelta(minutes=5)
DayMinutes == 1440      \* timedelta(hours=24)

\* a datetime: minutes since the model's epoch (a midnight), with or without tzinfo
DateTime(t, aware) == [t |-> t, aware |-> aware]

\* datetime.hour
HourOf(dt) == (dt.t \div 60) % 24

\* comparing a naive with an aware datetime raises TypeError
Comparable(a, b) == a.aware = b.aware

---------------------------------------------------------------------------
(* Risk scoring engine: services/risk_scoring.py *)

base_weights ==
    [ amount_anomaly     |-> 2500,
      velocity_check     |-> 2000,
      location_risk      |-> 1500,
      time_anomaly       |-> 1000,
      merchant_risk      |-> 1500,
      card_usage_pattern |-> 1500 ]

RiskFactor(name, value, description) ==
    [ name |-> name, weight |-> base_weights[name], value |-> value,
      description |-> description ]

\* what an analyzer does: return None, return a RiskFactor, or raise
NoFactor == [kind |-> "none"]
Emit(f) == [kind |-> "factor", factor |-> f]
Raise(exc) == [kind |-> "raise", exc |-> exc]

\* the weight alone, the value forgotten
ContributionWeightOnly(f) == f.weight

\* weight * value, a Decimal product
Contribution(f) == (f.weight * f.value) \div Scale

\* the leading digit of c is at least 3: c / 3 has as many integer digits as c
RECURSIVE Pow10Below(_, _)
Pow10Below(c, k) == IF k * 10 <= c THEN Pow10Below(c, k * 10) ELSE k
LeadingAtLeast3(c) == c >= 3 * Pow10Below(c, 1)

\* current_amount > avg_amount * 3, where avg_amount = sum(amounts) / len(amounts)
\* is a Decimal quotient rounded to 28 significant digits and the product is
\* rounded again.  Off a tie the rounding cannot change the comparison; on a tie
\* (current = 3 * exact mean) the quotient current/3 is rounded down exactly when
\* current % 3 = 1, and the product then stays below current only if it needs no
\* extra digit.
ExceedsThriceMean(current, amounts) ==
    LET n == Len(amounts)
        s == SumSeq(amounts)
    IN  \/ current * n > 3 * s
        \/ /\ current * n = 3 * s
           /\ current % 3 = 1
           /\ LeadingAtLeast3(current)

\* user_history[-k:]
LastK(h, k) == IF Len(h) <= k THEN h ELSE SubSeq(h, Len(h) - k + 1, Len(h))

AmountLookback == 30
PatternLookback == 20

\* the two no-history values exchanged
analyze_amount_anomaly_values_swapped(tx, user_history) ==
    IF user_history = <<>>
    THEN IF tx.amount > 500000
         THEN Emit(RiskFactor("amount_anomaly", 6000, "very_high_no_history"))
         ELSE IF tx.amount > 200000
         THEN Emit(RiskFactor("amount_anomaly", 9000, "high_no_history"))
         ELSE NoFactor
    ELSE NoFactor

\* _analyze_amount_anomaly
analyze_amount_anomaly(tx, user_history) ==
    IF user_history = <<>>
    THEN IF tx.amount > 500000
         THEN Emit(RiskFactor("amount_anomaly", 9000, "very_high_no_history"))
         ELSE IF tx.amount > 200000
         THEN Emit(RiskFactor("amount_anomaly", 6000, "high_no_history"))
         ELSE NoFactor
    ELSE LET h == LastK(user_history, AmountLookback)
             amounts == [i \in 1..Len(h) |-> h[i].amount]
         IN  IF ExceedsThriceMean(tx.amount, amounts)
             \* the second operand, max_amount * 1.5, multiplies a Decimal by a
             \* float: TypeError, so the RiskFactor below it is never built
             THEN Raise("TypeError")
             ELSE NoFactor

\* the count, append and prune of _analyze_transaction_velocity on one card's list
VelocityComparable(list, now) == \A i \in 1..Len(list) : Comparable(list[i], now)

RecentCount(list, now) ==
    Cardinality({i \in 1..Len(list) : list[i].t > now.t - FiveMinutes})

\* the prune keeping a timestamp that is exactly at the bound
KeepNewerOrEqual(list, bound) == SelectSeq(list, LAMBDA e : e.t >= bound)

RECURSIVE KeepNewer(_, _)
KeepNewer(list, bound) ==
    IF list = <<>> THEN <<>>
    ELSE IF Head(list).t > bound
         THEN <<Head(list)>> \o KeepNewer(Tail(list), bound)
         ELSE KeepNewer(Tail(list), bound)

AppendAndPrune(list, now) == KeepNewer(Append(list, now), now.t - DayMinutes)

\* the factor from two counted transactions on
VelocityFactorFromTwo(recent_count) ==
    IF recent_count >= 2
    THEN Emit(RiskFactor("velocity_check",
                         Min(Scale, (recent_count * Scale) \div 5),
                         "transactions_in_last_5_minutes"))
    ELSE NoFactor

\* the tail of _analyze_transaction_velocity: the factor, from the count
VelocityFactor(recent_count) ==
    IF recent_count >= 3
    THEN Emit(RiskFactor("velocity_check",
                         Min(Scale, (recent_count * Scale) \div 5),
                         "transactions_in_last_5_minutes"))
    ELSE NoFactor

\* the append and prune skipped when a factor is returned
analyze_transaction_velocity_quiet_only(tx, th) ==
    LET list == th[tx.card_number]
        now == tx.timestamp
        outcome == VelocityFactor(RecentCount(list, now))
    IN  IF ~VelocityComparable(list, now)
        THEN <<Raise("TypeError"), th>>
        ELSE <<outcome,
               IF outcome.kind = "factor" THEN th
               ELSE [th EXCEPT ![tx.card_number] = AppendAndPrune(list, now)]>>

\* _analyze_transaction_velocity: <<outcome, transaction_history afterwards>>
analyze_transaction_velocity(tx, th) ==
    LET list == th[tx.card_number]
        now == tx.timestamp
    IN  IF ~VelocityComparable(list, now)
        THEN <<Raise("TypeError"), th>>
        ELSE <<VelocityFactor(RecentCount(list, now)),
               [th EXCEPT ![tx.card_number] = AppendAndPrune(list, now)]>>

high_risk_indicators ==
    { <<"U", "N", "K", "N", "O", "W", "N">>,
      <<"O", "F", "F", "S", "H", "O", "R", "E">>,
      <<"S", "A", "N", "C", "T", "I", "O", "N", "E", "D">> }

risk_high_risk_countries ==
    high_risk_countries \cup
        { <<"M", "O", "S", "C", "O", "W">>, <<"B", "E", "I", "J", "I", "N", "G">> }

\* the two keyword loops of _analyze_location_risk, tabulated over the texts:
\* <<an indicator matches, a country matches>>
LocationMatches ==
    [location \in Strs |->
        << \E k \in high_risk_indicators : Contains(k, UpperOf[location]),
           \E k \in risk_high_risk_countries : Contains(k, UpperOf[location]) >>]

\* _analyze_location_risk
analyze_location_risk(tx) ==
    LET indicator == LocationMatches[tx.location][1]
        country == LocationMatches[tx.location][2]
        risk_score == IF indicator THEN 9000 ELSE IF country THEN 7000 ELSE 0
    IN  IF risk_score > 0
        THEN Emit(RiskFactor("location_risk", risk_score,
                             IF country THEN "monitored_country" ELSE "high_risk_location"))
        ELSE NoFactor

\* a time factor at every hour, with value 0 at the usual ones
analyze_time_anomaly_zero_entry(tx) ==
    IF 2 <= HourOf(tx.timestamp) /\ HourOf(tx.timestamp) <= 5
    THEN Emit(RiskFactor("time_anomaly", 6000, "unusual_hour"))
    ELSE Emit(RiskFactor("time_anomaly", 0, "usual_hour"))

\* _analyze_time_anomaly
analyze_time_anomaly(tx) ==
    IF 2 <= HourOf(tx.timestamp) /\ HourOf(tx.timestamp) <= 5
    THEN Emit(RiskFactor("time_anomaly", 6000, "unusual_hour"))
    ELSE NoFactor

risk_high_risk_merchants ==
    high_risk_merchants \cup
        { <<"A", "T", "M", " ", "C", "A", "S", "H">>,
          <<"W", "I", "R", "E", " ", "T", "R", "A", "N", "S", "F", "E", "R">> }

\* the keyword loop of _analyze_merchant_risk, tabulated over the texts
MerchantMatches ==
    [merchant \in Strs |->
        \E k \in risk_high_risk_merchants : Contains(k, UpperOf[merchant])]

\* _analyze_merchant_risk
analyze_merchant_risk(tx) ==
    IF MerchantMatches[tx.merchant]
    THEN Emit(RiskFactor("merchant_risk", 7000, "high_risk_merchant_category"))
    ELSE NoFactor

\* _analyze_usage_pattern
analyze_usage_pattern(tx, user_history) ==
    IF Len(user_history) < 5
    THEN NoFactor
    ELSE LET h == LastK(user_history, PatternLookback)
             merchant_words == UpperWordsOf[tx.merchant]
             historical_words == UNION {UpperWordsOf[h[i].merchant] : i \in 1..Len(h)}
         IN  IF merchant_words \cap historical_words = {} /\ Len(h) > 10
             THEN Emit(RiskFactor("card_usage_pattern", 5000, "first_merchant_type"))
             ELSE NoFactor

\* the rule engine's three levels in place of the five
get_risk_level_of_rules(score) == rule_get_risk_level(score)

\* RiskScoringService._get_risk_level
get_risk_level(score) ==
    IF score >= 8000 THEN "CRITICAL"
    ELSE IF score >= 6000 THEN "HIGH"
    ELSE IF score >= 4000 THEN "MEDIUM"
    ELSE IF score >= 2000 THEN "LOW"
    ELSE "MINIMAL"

HasFactor(factors, name) == \E i \in 1..Len(factors) : factors[i].name = name

\* _generate_recommendations
generate_recommendations(score, factors) ==
    (IF score >= 8000
     THEN <<"BLOCK transaction immediately", "Contact cardholder for verification",
            "Flag account for manual review">>
     ELSE IF score >= 6000
     THEN <<"Require additional authentication", "Monitor account closely">>
     ELSE IF score >= 4000
     THEN <<"Send SMS verification to cardholder", "Log for pattern analysis">>
     ELSE <<>>)
    \o (IF HasFactor(factors, "velocity_check")
        THEN <<"Implement temporary transaction limits">> ELSE <<>>)
    \o (IF HasFactor(factors, "location_risk")
        THEN <<"Verify location with cardholder">> ELSE <<>>)
    \o (IF HasFactor(factors, "amount_anomaly")
        THEN <<"Confirm large purchase authorization">> ELSE <<>>)

\* the confidence without its floor for an empty factor list
calculate_confidence_no_floor(factors) ==
    Min(Scale, SumSeq([i \in 1..Len(factors) |-> factors[i].weight])
                 + Min(2000, Len(factors) * 500))

\* _calculate_confidence
\* the confidence never let below the value of the no-factor case
calculate_confidence_floored(factors) ==
    Max(3000, Min(Scale, SumSeq([i \in 1..Len(factors) |-> factors[i].weight])
                           + Min(2000, Len(factors) * 500)))

calculate_confidence(factors) ==
    IF factors = <<>>
    THEN 3000
    ELSE LET total_weight == SumSeq([i \in 1..Len(factors) |-> factors[i].weight])
             factor_count_bonus == Min(2000, Len(factors) * 500)
         IN  Min(Scale, total_weight + factor_count_bonus)

\* the six `if x_factor:` blocks of calculate_comprehensive_risk_score, over the
\* analyzers' outcomes in call order: append the factor and add weight * value
RECURSIVE Accumulate(_, _)
Accumulate(outcomes, acc) ==
    IF outcomes = <<>> THEN acc
    ELSE IF Head(outcomes).kind = "factor"
         THEN Accumulate(Tail(outcomes),
                  [ risk_factors |-> Append(acc.risk_factors, Head(outcomes).factor),
                    total_score |-> acc.total_score + Contribution(Head(outcomes).factor) ])
         ELSE Accumulate(Tail(outcomes), acc)

\* calculate_comprehensive_risk_score:
\* [raised, assessment (when it returns), th (transaction_history afterwards)]
calculate_comprehensive_risk_score(tx, user_history, th) ==
    LET amount_factor == analyze_amount_anomaly(tx, user_history)
        velocity == analyze_transaction_velocity(tx, th)
        outcomes == << amount_factor,
                       velocity[1],
                       analyze_location_risk(tx),
                       analyze_time_anomaly(tx),
                       analyze_merchant_risk(tx),
                       analyze_usage_pattern(tx, user_history) >>
        acc == Accumulate(outcomes, [risk_factors |-> <<>>, total_score |-> 0])
        risk_factors == acc.risk_factors
        total_score == acc.total_score
    IN  IF amount_factor.kind = "raise"
        THEN [raised |-> TRUE, th |-> th]
        ELSE IF velocity[1].kind = "raise"
        THEN [raised |-> TRUE, th |-> th]
        ELSE [ raised |-> FALSE,
               th |-> velocity[2],
               assessment |->
                 [ risk_score      |-> Min(total_score, Scale),
                   risk_level      |-> get_risk_level(total_score),
                   factors         |-> risk_factors,
                   recommendations |-> generate_recommendations(total_score, risk_factors),
                   confidence      |-> calculate_confidence(risk_factors) ] ]

---------------------------------------------------------------------------
(* Decision fusion: app.py determine_final_decision *)

\* ml_prediction: None, or the prediction dict of the model
NoPrediction == [present |-> FALSE]
Prediction(p) == [present |-> TRUE, combined_fraud_probability |-> p]

\* combined_fraud_probability values the model draws, in units
MLProbs == {0, 3320, 4000, Scale}

\* fused scores are held in units of 1/FuseScale, which makes the weighted sums
\* below whole numbers without a division
FuseScale == 10 * Scale

\* the ML term added on top of the two-signal weights
fused_score_ml_on_top(basic_risk, advanced_risk, ml_prediction) ==
    6 * basic_risk + 4 * advanced_risk
      + (IF ml_prediction.present
         THEN 3 * ml_prediction.combined_fraud_probability ELSE 0)

\* final_score, the weighted combination, as the exact decimal value
fused_score(basic_risk, advanced_risk, ml_prediction) ==
    IF ml_prediction.present
    THEN 4 * basic_risk + 3 * advanced_risk + 3 * ml_prediction.combined_fraud_probability
    ELSE 6 * basic_risk + 4 * advanced_risk

\* final_score is a double.  Its distance from the exact value (about 1e-16) is
\* far below one unit, so it can change `final_score >= threshold` only when the
\* exact value equals the threshold.  Evaluating the source expression in IEEE-754
\* double arithmetic over every rule score, every risk score that is a multiple
\* of 0.005 and every probability of MLProbs (or none) gives a double just below
\* the threshold (0.39999999999999997) in exactly these cases:
\* <<ml present, probability, basic_risk, advanced_risk>>
FloatShortfall ==
    { <<FALSE, 0, 2000, 7000>>,
      <<TRUE, 0, 7000, 4000>>,
      <<TRUE, 4000, 7000, 0>> }

\* the weighted combination with the ML weights used in both branches
final_score_ml_weights(basic_risk, advanced_risk, ml_prediction) ==
    [ units |-> 4 * basic_risk + 3 * advanced_risk
                  + (IF ml_prediction.present
                     THEN 3 * ml_prediction.combined_fraud_probability ELSE 0),
      short |-> FALSE ]

\* final_score, the double: the exact value in units, and whether the double
\* falls short of it
final_score(basic_risk, advanced_risk, ml_prediction) ==
    [ units |-> fused_score(basic_risk, advanced_risk, ml_prediction),
      short |-> << ml_prediction.present,
                   IF ml_prediction.present
                   THEN ml_prediction.combined_fraud_probability ELSE 0,
                   basic_risk, advanced_risk >> \in FloatShortfall ]

\* the thresholds taken for hundredths
AtLeastHundredths(score, tenths) ==
    \/ score.units > tenths * (Scale \div 10)
    \/ score.units = tenths * (Scale \div 10) /\ ~score.short

\* score >= threshold, threshold in tenths
AtLeast(score, tenths) ==
    \/ score.units > tenths * Scale
    \/ score.units = tenths * Scale /\ ~score.short

\* the ladder with its tests in ascending order
decide_action_ascending(score) ==
    IF AtLeast(score, 4) THEN "MONITOR"
    ELSE IF AtLeast(score, 6) THEN "REVIEW"
    ELSE IF AtLeast(score, 8) THEN "BLOCK"
    ELSE "APPROVE"

\* the if/elif ladder
decide_action(score) ==
    IF AtLeast(score, 8) THEN "BLOCK"
    ELSE IF AtLeast(score, 6) THEN "REVIEW"
    ELSE IF AtLeast(score, 4) THEN "MONITOR"
    ELSE "APPROVE"

reason_of(action) ==
    CASE action = "BLOCK"   -> "Critical fraud risk detected"
      [] action = "REVIEW"  -> "High fraud risk - manual review required"
      [] action = "MONITOR" -> "Medium fraud risk - enhanced monitoring"
      [] OTHER              -> "Low fraud risk"

\* round(final_score, 3), in thousandths.  A value half-way between two
\* thousandths is not a double: the double nearest to it lies on one side, and
\* which side is decided below the model's resolution; tie_up is that side.
round3(score, tie_up) ==
    LET q == score.units \div 100
        r == score.units % 100
    IN  IF r > 50 \/ (r = 50 /\ tie_up) THEN q + 1 ELSE q

\* the sides on which round() can find the double
TieSides(score) == IF score.units % 100 = 50 THEN BOOLEAN ELSE {FALSE}

\* the action decided on the rounded score
determine_final_decision_on_rounded(fraud_analysis, risk_analysis, ml_prediction, tie_up) ==
    LET score == final_score(fraud_analysis.risk_score, risk_analysis.risk_score,
                             ml_prediction)
        rounded == round3(score, tie_up)
        action == decide_action([units |-> 100 * rounded, short |-> FALSE])
    IN  [ final_risk_score |-> rounded,
          action |-> action,
          reason |-> reason_of(action),
          confidence |-> risk_analysis.confidence ]

\* determine_final_decision
determine_final_decision(fraud_analysis, risk_analysis, ml_prediction, tie_up) ==
    LET score == final_score(fraud_analysis.risk_score, risk_analysis.risk_score,
                             ml_prediction)
        action == decide_action(score)
    IN  [ final_risk_score |-> round3(score, tie_up),
          action |-> action,
          reason |-> reason_of(action),
          confidence |-> risk_analysis.confidence ]

---------------------------------------------------------------------------
(* The service: app.py *)

\* get_user_transaction_history orders by the isoformat strings.  Both formats
\* are fixed-width up to the seconds, so the order is the chronological one, and
\* at the same instant the naive string is a proper prefix of the aware one.
TimestampStrLess(a, b) == a.t < b.t \/ (a.t = b.t /\ ~a.aware /\ b.aware)

\* sorted(..., key=timestamp, reverse=True): stable, descending
RECURSIVE InsertDesc(_, _)
InsertDesc(sorted, x) ==
    IF sorted = <<>> THEN <<x>>
    ELSE IF TimestampStrLess(Head(sorted).timestamp, x.timestamp)
         THEN <<x>> \o sorted
         ELSE <<Head(sorted)>> \o InsertDesc(Tail(sorted), x)

RECURSIVE SortDesc(_, _)
SortDesc(acc, rest) ==
    IF rest = <<>> THEN acc ELSE SortDesc(InsertDesc(acc, Head(rest)), Tail(rest))

HistoryLimit == 30

\* a stored dict has the key (records stored by the batch endpoint lack most)
HasKey(r, key) == key \in DOMAIN r

\* get_user_transaction_history
get_user_transaction_history(db, card_number) ==
    LET user_transactions ==
            SelectSeq(db, LAMBDA r : HasKey(r, "card_number") /\ r.card_number = card_number)
        sorted_transactions == SortDesc(<<>>, user_transactions)
    IN  SubSeq(sorted_transactions, 1, Min(HistoryLimit, Len(sorted_transactions)))

\* an alert for BLOCK decisions alone
create_alert_block_only(alerts, combined_result) ==
    LET decision == combined_result.final_decision
    IN  IF decision.action = "BLOCK"
        THEN Append(alerts,
                 [ id |-> Len(alerts) + 1,
                   transaction_id |-> combined_result.transaction_id,
                   severity |-> "CRITICAL",
                   risk_score |-> decision.final_risk_score,
                   action_required |-> decision.action,
                   reason |-> decision.reason,
                   merchant |-> combined_result.merchant,
                   amount |-> combined_result.amount,
                   location |-> combined_result.location,
                   status |-> "OPEN" ])
        ELSE alerts

\* create_alert: the alert appended for a BLOCK or REVIEW decision (created_at,
\* the wall-clock time of creation, is left out)
create_alert(alerts, combined_result) ==
    LET decision == combined_result.final_decision
    IN  IF decision.action \in {"BLOCK", "REVIEW"}
        THEN Append(alerts,
                 [ id |-> Len(alerts) + 1,
                   transaction_id |-> combined_result.transaction_id,
                   severity |-> IF decision.action = "BLOCK" THEN "CRITICAL" ELSE "HIGH",
                   risk_score |-> decision.final_risk_score,
                   action_required |-> decision.action,
                   reason |-> decision.reason,
                   merchant |-> combined_result.merchant,
                   amount |-> combined_result.amount,
                   location |-> combined_result.location,
                   status |-> "OPEN" ])
        ELSE alerts

\* the combined_result dict built by analyze_transaction and by the seeding
CombinedResult(tx, fraud_analysis, risk_analysis, ml_prediction, tie_up) ==
    [ transaction_id |-> tx.id,
      timestamp |-> tx.timestamp,
      amount |-> tx.amount,
      merchant |-> tx.merchant,
      location |-> tx.location,
      card_number |-> tx.card_number,
      fraud_analysis |-> fraud_analysis,
      risk_analysis |-> risk_analysis,
      ml_prediction |-> ml_prediction,
      final_decision |->
          determine_final_decision(fraud_analysis, risk_analysis, ml_prediction, tie_up) ]

\* store the record, then create the alert if the action asks for one
StoreAndAlert(st, combined_result) ==
    [ st EXCEPT !.db = Append(st.db, combined_result),
                !.alerts = IF combined_result.final_decision.action \in {"BLOCK", "REVIEW"}
                           THEN create_alert(st.alerts, combined_result)
                           ELSE st.alerts ]

\* the seed data of seed_realistic_transactions; datetime(...) without tzinfo
realistic_transactions ==
    <<
      [ id |-> "TXN_001", amount |-> 8999, merchant |-> "Amazon.com",
        location |-> "Seattle, WA, US",
        timestamp |-> DateTime(870, FALSE), card_number |-> "****1234" ],
      [ id |-> "TXN_002", amount |-> 125000, merchant |-> "Apple Store",
        location |-> "Cupertino, CA, US",
        timestamp |-> DateTime(945, FALSE), card_number |-> "****9012" ],
      [ id |-> "TXN_003", amount |-> 7550, merchant |-> "Starbucks Coffee",
        location |-> "New York, NY, US",
        timestamp |-> DateTime(980, FALSE), card_number |-> "****5678" ],
      [ id |-> "TXN_004", amount |-> 500000, merchant |-> "Cash Advance",
        location |-> "Moscow, Russia",
        timestamp |-> DateTime(1030, FALSE), card_number |-> "****9012" ],
      [ id |-> "TXN_005", amount |-> 2599, merchant |-> "Netflix.com",
        location |-> "Los Gatos, CA, US",
        timestamp |-> DateTime(1085, FALSE), card_number |-> "****1234" ],
      [ id |-> "TXN_006", amount |-> 8999, merchant |-> "Target Store",
        location |-> "Minneapolis, MN, US",
        timestamp |-> DateTime(1155, FALSE), card_number |-> "****5678" ],
      [ id |-> "TXN_007", amount |-> 120000, merchant |-> "Best Buy",
        location |-> "Richfield, MN, US",
        timestamp |-> DateTime(1230, FALSE), card_number |-> "****9012" ],
      [ id |-> "TXN_008", amount |-> 4500, merchant |-> "Uber Technologies",
        location |-> "San Francisco, CA, US",
        timestamp |-> DateTime(1305, FALSE), card_number |-> "****1234" ],
      [ id |-> "TXN_009", amount |-> 32075, merchant |-> "Walmart Supercenter",
        location |-> "Bentonville, AR, US",
        timestamp |-> DateTime(1330, FALSE), card_number |-> "****5678" ],
      [ id |-> "TXN_010", amount |-> 250000, merchant |-> "Luxury Casino",
        location |-> "Las Vegas, NV, US",
        timestamp |-> DateTime(1380, FALSE), card_number |-> "****7890" ],
      [ id |-> "TXN_011", amount |-> 1299, merchant |-> "Spotify Premium",
        location |-> "Stockholm, Sweden",
        timestamp |-> DateTime(1410, FALSE), card_number |-> "****1234" ],
      [ id |-> "TXN_012", amount |-> 89900, merchant |-> "Samsung Electronics",
        location |-> "Seoul, South Korea",
        timestamp |-> DateTime(1425, FALSE), card_number |-> "****5678" ],
      [ id |-> "TXN_013", amount |-> 750000, merchant |-> "Cash Advance",
        location |-> "Beijing, China",
        timestamp |-> DateTime(1515, FALSE), card_number |-> "****9012" ],
      [ id |-> "TXN_014", amount |-> 6599, merchant |-> "McDonald's",
        location |-> "Chicago, IL, US",
        timestamp |-> DateTime(1590, FALSE), card_number |-> "****1234" ],
      [ id |-> "TXN_015", amount |-> 320000, merchant |-> "Crypto Exchange",
        location |-> "Unknown Location",
        timestamp |-> DateTime(1665, FALSE), card_number |-> "****7890" ],
      [ id |-> "TXN_016", amount |-> 12550, merchant |-> "Shell Gas Station",
        location |-> "Houston, TX, US",
        timestamp |-> DateTime(1700, FALSE), card_number |-> "****5678" ],
      [ id |-> "TXN_017", amount |-> 29999, merchant |-> "Best Buy",
        location |-> "Phoenix, AZ, US",
        timestamp |-> DateTime(1740, FALSE), card_number |-> "****1234" ]
    >>

\* seed_realistic_transactions, from its i-th record on; st = [db, alerts, th]
RECURSIVE SeedFrom(_, _)
SeedFrom(i, st) ==
    IF i > Len(realistic_transactions) THEN st
    ELSE LET tx == realistic_transactions[i]
             fraud_analysis == fraud_analyze_transaction(tx)
             scored == calculate_comprehensive_risk_score(tx, <<>>, st.th)
         IN  IF scored.raised
             THEN SeedFrom(i + 1, st)      \* except: logged, next record
             ELSE SeedFrom(i + 1,
                      StoreAndAlert([st EXCEPT !.th = scored.th],
                          CombinedResult(tx, fraud_analysis, scored.assessment,
                                         NoPrediction, FALSE)))

\* cards: the four of the seed data and one the seed data does not use
FreshCard == "****0001"
AllCards == {realistic_transactions[i].card_number : i \in 1..Len(realistic_transactions)}
                \cup {FreshCard}

\* HTTP outcomes
NoResponse == [status |-> 0]
ServerError(error) == [status |-> 500, error |-> error]
Ok(body) == [status |-> 200, body |-> body]

\* requests: what the clients of the analysed runs send (already validated)
MaxRequests == 2
SvcCards == {"****1234", FreshCard}
SvcIds == {"TXN_A"}
\* two instants of the third day after the epoch: 03:00 and 12:00
SvcTimes == {2 * DayMinutes + 180, 2 * DayMinutes + 720}
SvcProfiles ==
    { [amount |-> 1500000, merchant |-> "Luxury Store", location |-> "New York, US"],
      [amount |-> 500000, merchant |-> "Cash Advance", location |-> "Moscow, Russia"],
      [amount |-> 2599, merchant |-> "Netflix.com", location |-> "Los Gatos, CA, US"],
      [amount |-> 1500000, merchant |-> "Cash Advance", location |-> "Moscow, Russia"] }

\* the validator hands over timezone-aware UTC datetimes
CleanData(id, profile, t, card_number) ==
    [ id |-> id, amount |-> profile.amount, merchant |-> profile.merchant,
      location |-> profile.location, timestamp |-> DateTime(t, TRUE),
      card_number |-> card_number ]

\* records stored by requests (the seed data carries naive datetimes)
StoredRequests(db) ==
    Cardinality({i \in 1..Len(db) : HasKey(db[i], "timestamp") /\ db[i].timestamp.aware})

\* what predict_fraud_probability does when called: raise (always, when the model
\* is not trained), or return a prediction
SvcMLProbs == {3320, Scale}
MLOutcomes(trained) ==
    {[raises |-> TRUE]} \cup
        (IF trained THEN {[raises |-> FALSE, p |-> p] : p \in SvcMLProbs} ELSE {})

\* a raising predict_fraud_probability taken for a prediction of 0
ml_prediction_of_raise_as_zero(trained, outcome) ==
    IF trained
    THEN Prediction(IF outcome.raises THEN 0 ELSE outcome.p)
    ELSE NoPrediction

\* the `if ml_model.is_trained: try ... except` block of analyze_transaction
ml_prediction_of(trained, outcome) ==
    IF trained /\ ~outcome.raises THEN Prediction(outcome.p) ELSE NoPrediction

\* what became of the model in one request
ml_status(trained, outcome) ==
    IF ~trained THEN "not_trained"
    ELSE IF outcome.raises THEN "raised" ELSE "returned"

\* POST /api/transactions with data that passes validation
analyze_transaction(clean_data) ==
    LET fraud_analysis == fraud_analyze_transaction(clean_data)
        user_history == get_user_transaction_history(transactions_db, clean_data.card_number)
        scored == calculate_comprehensive_risk_score(clean_data, user_history,
                                                     transaction_history)
    IN  /\ StoredRequests(transactions_db) < MaxRequests
        /\ IF scored.raised
           THEN /\ response' = ServerError("Transaction analysis failed")
                /\ call' = [fn |-> "analyze_transaction", ml |-> "not_reached"]
                /\ UNCHANGED <<transactions_db, alerts_db, transaction_history>>
           ELSE \E ml_outcome \in MLOutcomes(is_trained) :
                  LET ml_prediction == ml_prediction_of(is_trained, ml_outcome)
                  IN  \E tie_up \in TieSides(final_score(fraud_analysis.risk_score,
                                                         scored.assessment.risk_score,
                                                         ml_prediction)) :
                        LET combined_result ==
                                CombinedResult(clean_data, fraud_analysis, scored.assessment,
                                               ml_prediction, tie_up)
                            st == StoreAndAlert([db |-> transactions_db, alerts |-> alerts_db,
                                                 th |-> scored.th], combined_result)
                        IN  /\ transactions_db' = st.db
                            /\ alerts_db' = st.alerts
                            /\ transaction_history' = st.th
                            /\ response' = Ok(combined_result)
                            /\ call' = [fn |-> "analyze_transaction",
                                        ml |-> ml_status(is_trained, ml_outcome)]
        /\ UNCHANGED <<is_trained, ret, heap, hist_ref, threads>>

\* POST /api/model/train: train_models sets is_trained as its last step but one
train_model(succeeds) ==
    /\ ~is_trained
    /\ is_trained' = succeeds
    /\ response' = IF succeeds THEN Ok([status |-> "success"])
                   ELSE ServerError("Model training failed")
    /\ call' = [fn |-> "train_model"]
    /\ UNCHANGED <<transactions_db, alerts_db, transaction_history,
                   ret, heap, hist_ref, threads>>

\* the __main__ block: seed the store, train the model if none was loaded
main(train_succeeds) ==
    LET st == SeedFrom(1, [db |-> transactions_db, alerts |-> alerts_db,
                           th |-> transaction_history])
    IN  /\ response = NoResponse
        /\ transactions_db = <<>>
        /\ transactions_db' = st.db
        /\ alerts_db' = st.alerts
        /\ transaction_history' = st.th
        /\ is_trained' = (is_trained \/ train_succeeds)
        /\ call' = [fn |-> "main"]
        /\ UNCHANGED <<response, ret, heap, hist_ref, threads>>

\* the per-item loop of analyze_batch_transactions from item i on:
\* st = [results, db]; an item is [valid, clean_data]
RECURSIVE BatchFrom(_, _, _)
BatchFrom(i, items, st) ==
    IF i > Len(items) THEN st
    ELSE IF ~items[i].valid
    THEN BatchFrom(i + 1, items,
             [st EXCEPT !.results = Append(@, [ transaction_index |-> i - 1,
                                                error |-> "Validation failed" ])])
    ELSE LET result == [ transaction_index |-> i - 1,
                         transaction_id |-> items[i].clean_data.id,
                         fraud_analysis |-> fraud_analyze_transaction(items[i].clean_data),
                         validation_warnings |-> <<>> ]
         IN  BatchFrom(i + 1, items,
                 [st EXCEPT !.results = Append(@, result), !.db = Append(@, result)])

\* records stored by the batch endpoint
BatchRecords(db) == Cardinality({i \in 1..Len(db) : HasKey(db[i], "transaction_index")})

\* batches of the analysed runs: one or two items, the second valid or not
MaxBatchRecords == 2
BatchItem(valid, profile) ==
    [ valid |-> valid,
      clean_data |-> CleanData("TXN_B", profile, 2 * DayMinutes + 720, FreshCard) ]
Batches ==
    LET profiles == { [amount |-> 1500000, merchant |-> "Cash Advance",
                       location |-> "Moscow, Russia"],
                      [amount |-> 2599, merchant |-> "Netflix.com",
                       location |-> "Los Gatos, CA, US"] }
    IN  {<<BatchItem(TRUE, p)>> : p \in profiles}
          \cup {<<BatchItem(TRUE, p), BatchItem(v, q)>> :
                  p \in profiles, q \in profiles, v \in BOOLEAN}

\* POST /api/transactions/batch
analyze_batch_transactions(transactions) ==
    LET st == BatchFrom(1, transactions, [results |-> <<>>, db |-> transactions_db])
        failed == Cardinality({i \in 1..Len(st.results) : HasKey(st.results[i], "error")})
    IN  /\ BatchRecords(transactions_db) < MaxBatchRecords
        /\ transactions_db' = st.db
        /\ response' = Ok([ results |-> st.results,
                            summary |-> [ total_processed |-> Len(transactions),
                                          successful |-> Len(st.results) - failed,
                                          failed |-> failed ] ])
        /\ call' = [fn |-> "analyze_batch_transactions"]
        /\ UNCHANGED <<alerts_db, transaction_history, is_trained, ret, heap, hist_ref, threads>>

\* clean_invalid_date_transactions: a timestamp that is missing, or 'Invalid Date',
\* removes the record (no stored timestamp is ever the text 'Invalid Date')
clean_invalid_date_transactions(db) == SelectSeq(db, LAMBDA r : HasKey(r, "timestamp"))

\* GET /api/transactions with the default page and no filter
PerPage == 50
get_transactions ==
    LET cleaned == clean_invalid_date_transactions(transactions_db)
    IN  /\ transactions_db' = cleaned
        /\ response' = Ok([ transactions |-> SubSeq(cleaned, 1, Min(PerPage, Len(cleaned))),
                            total |-> Len(cleaned) ])
        /\ call' = [fn |-> "get_transactions"]
        /\ UNCHANGED <<alerts_db, transaction_history, is_trained, ret, heap, hist_ref, threads>>

NoCall == [fn |-> "none"]
NoRet == [kind |-> "none"]

Init ==
    /\ transactions_db = <<>>
    /\ alerts_db = <<>>
    /\ transaction_history = [c \in AllCards |-> <<>>]
    /\ is_trained \in BOOLEAN          \* _load_models may find saved models
    /\ response = NoResponse
    /\ call = NoCall
    /\ ret = NoRet
    /\ heap = <<>>
    /\ hist_ref = [c \in AllCards |-> 0]
    /\ threads = <<>>

Next ==
    \/ \E id \in SvcIds, profile \in SvcProfiles, t \in SvcTimes, c \in SvcCards :
          analyze_transaction(CleanData(id, profile, t, c))
    \/ \E succeeds \in BOOLEAN : train_model(succeeds)
    \/ \E train_succeeds \in BOOLEAN : main(train_succeeds)

Spec == Init /\ [][Next]_vars

\* the service with its three endpoints that write transactions_db
StoreProfiles ==
    { [amount |-> 500000, merchant |-> "Cash Advance", location |-> "Moscow, Russia"],
      [amount |-> 2599, merchant |-> "Netflix.com", location |-> "Los Gatos, CA, US"] }

NextStore ==
    \/ \E profile \in StoreProfiles :
          analyze_transaction(CleanData("TXN_A", profile, 2 * DayMinutes + 720, FreshCard))
    \/ \E transactions \in Batches : analyze_batch_transactions(transactions)
    \/ get_transactions

SpecStore == Init /\ [][NextStore]_vars

---------------------------------------------------------------------------
(* The rule engine applied to one transaction *)

\* amounts in cents at and around the engine's thresholds, within the
\* validator's [0.01, 50000.00]
Amounts == {1, 2599, 200000, 200001, 500000, 500001, 1500000, 5000000}

RuleTxs ==
    { [ id |-> "TXN_A", amount |-> a, merchant |-> m, location |-> l,
        timestamp |-> DateTime(2 * DayMinutes + 180, TRUE), card_number |-> FreshCard ] :
      a \in Amounts, m \in Merchants, l \in Locations }

IdleService ==
    /\ transactions_db = <<>>
    /\ alerts_db = <<>>
    /\ is_trained = FALSE
    /\ response = NoResponse

IdleThreads ==
    /\ heap = <<>>
    /\ hist_ref = [c \in AllCards |-> 0]
    /\ threads = <<>>

InitRules ==
    /\ IdleService
    /\ IdleThreads
    /\ transaction_history = [c \in AllCards |-> <<>>]
    /\ call \in {[fn |-> "rules", tx |-> tx] : tx \in RuleTxs}
    /\ ret = NoRet

RulesCall ==
    /\ call.fn = "rules"
    /\ ret = NoRet
    /\ ret' = [kind |-> "rules", result |-> fraud_analyze_transaction(call.tx)]
    /\ UNCHANGED <<svcVars, call, concVars>>

NextRules == RulesCall

SpecRules == InitRules /\ [][NextRules]_vars

---------------------------------------------------------------------------
(* The whole scoring path applied to one transaction, for any history the *)
(* caller may pass and any state of the card's velocity list              *)

ScoreAmounts == {2599, 200001, 500000, 500001}
ScoreMerchants == {"Luxury Store", "Cash Advance", "ATM Cash Point"}
ScoreLocations == {"New York, US", "Moscow, Russia", "Unknown Location", "Unknown City, Russia"}
\* 03:00 and 12:00 of the third day
ScoreTimes == {2 * DayMinutes + 180, 2 * DayMinutes + 720}

\* scenario C: 25.99 at 'Netflix.com' in 'Los Gatos, CA, US' at 18:05
ScenarioCTx ==
    [ id |-> "TXN_A", amount |-> 2599, merchant |-> "Netflix.com",
      location |-> "Los Gatos, CA, US",
      timestamp |-> DateTime(2 * DayMinutes + 18 * 60 + 5, TRUE), card_number |-> FreshCard ]

ScoreTxs ==
    { [ id |-> "TXN_A", amount |-> a, merchant |-> m, location |-> l,
        timestamp |-> DateTime(t, TRUE), card_number |-> FreshCard ] :
      a \in ScoreAmounts, m \in ScoreMerchants, l \in ScoreLocations, t \in ScoreTimes }
    \cup {ScenarioCTx}

\* histories: n earlier records of the card, all of one amount and merchant
MaxHist == 11
HistEntries == { <<500000, "Best Buy">>, <<2599, "Luxury Store">> }
HistoryOf(n, e) ==
    [ i \in 1..n |-> [ amount |-> e[1], merchant |-> e[2], card_number |-> FreshCard,
                       timestamp |-> DateTime(DayMinutes + i, TRUE) ] ]
Histories == {HistoryOf(n, e) : n \in 0..MaxHist, e \in HistEntries}

\* velocity lists at the time of a call at `now`: optionally one entry exactly 24
\* hours old or one naive entry (left by the seeding), then k entries one minute old
MaxRecent == 5
VelocityLists(now) ==
    { prefix \o [i \in 1..k |-> DateTime(now - 1, TRUE)] :
        prefix \in { <<>>, <<DateTime(now - DayMinutes, TRUE)>>, <<DateTime(now - 1, FALSE)>> },
        k \in 0..MaxRecent }

ScoreMLs == {NoPrediction, Prediction(0), Prediction(Scale)}

InitScore ==
    /\ IdleService
    /\ IdleThreads
    /\ \E tx \in ScoreTxs, h \in Histories, ml \in ScoreMLs :
         /\ call = [fn |-> "score", tx |-> tx, user_history |-> h, ml_prediction |-> ml]
         /\ \E v \in VelocityLists(tx.timestamp.t) :
              transaction_history = [c \in AllCards |-> IF c = tx.card_number THEN v ELSE <<>>]
    /\ ret = NoRet

\* fraud_service.analyze_transaction, risk_service.calculate_comprehensive_risk_score
\* and determine_final_decision, as analyze_transaction chains them
ScoreCall ==
    /\ call.fn = "score"
    /\ ret = NoRet
    /\ LET fraud_analysis == fraud_analyze_transaction(call.tx)
           scored == calculate_comprehensive_risk_score(call.tx, call.user_history,
                                                        transaction_history)
       IN  IF scored.raised
           THEN /\ ret' = [kind |-> "raised"]
                /\ UNCHANGED transaction_history
           ELSE /\ transaction_history' = scored.th
                /\ \E tie_up \in TieSides(final_score(fraud_analysis.risk_score,
                                                      scored.assessment.risk_score,
                                                      call.ml_prediction)) :
                     ret' = [ kind |-> "scored",
                              fraud_analysis |-> fraud_analysis,
                              risk_analysis |-> scored.assessment,
                              final_decision |->
                                  determine_final_decision(fraud_analysis, scored.assessment,
                                                           call.ml_prediction, tie_up) ]
    /\ UNCHANGED <<transactions_db, alerts_db, is_trained, response, call, concVars>>

NextScore == ScoreCall

SpecScore == InitScore /\ [][NextScore]_vars

---------------------------------------------------------------------------
(* Decision fusion applied to any pair of analyses and any prediction *)

\* the scores the rule engine can return
RuleScores == {0, 2000, 3000, 4000, 5000, 6000, 7000, 8000, 9000, 11000}
\* the risk engine's scores are multiples of 0.005 in [0, 1]
RiskScores == {k * 50 : k \in 0..(Scale \div 50)}
Confidences == {3000, 6500, Scale}

InitFuse ==
    /\ IdleService
    /\ IdleThreads
    /\ transaction_history = [c \in AllCards |-> <<>>]
    /\ \E b \in RuleScores, a \in RiskScores, c \in Confidences,
          ml \in {NoPrediction} \cup {Prediction(p) : p \in MLProbs} :
         call = [ fn |-> "fuse",
                  fraud_analysis |-> [risk_score |-> b],
                  risk_analysis |-> [risk_score |-> a, confidence |-> c],
                  ml_prediction |-> ml ]
    /\ ret = NoRet

\* determine_final_decision; final_score, its local variable, is kept beside the
\* returned dict
FuseCall ==
    /\ call.fn = "fuse"
    /\ ret = NoRet
    /\ LET score == final_score(call.fraud_analysis.risk_score,
                                call.risk_analysis.risk_score, call.ml_prediction)
       IN  \E tie_up \in TieSides(score) :
             ret' = [ kind |-> "decided",
                      final_score |-> score,
                      final_decision |->
                          determine_final_decision(call.fraud_analysis, call.risk_analysis,
                                                   call.ml_prediction, tie_up) ]
    /\ UNCHANGED <<svcVars, call, concVars>>

NextFuse == FuseCall

SpecFuse == InitFuse /\ [][NextFuse]_vars

---------------------------------------------------------------------------
(* The velocity analyzer called again and again, from empty histories *)

MaxCalls == 5
VelCards == {"****1234", FreshCard}
\* minutes from one call's timestamp to the next: inside and outside the five
\* minutes, a day later, and a timestamp earlier than the one before
Gaps == {-10, 1, 2, 5, 10, DayMinutes}
VelStart == 2 * DayMinutes + 180

InitVelocity ==
    /\ IdleService
    /\ IdleThreads
    /\ transaction_history = [c \in AllCards |-> <<>>]
    /\ call = [fn |-> "velocity", log |-> <<>>]
    /\ ret = NoRet

\* one call of _analyze_transaction_velocity; the calls made so far and what each
\* returned are kept in call.log
VelocityCall(card_number, gap) ==
    /\ call.fn = "velocity"
    /\ Len(call.log) < MaxCalls
    /\ LET now == DateTime(IF call.log = <<>> THEN VelStart
                           ELSE call.log[Len(call.log)].t + gap, TRUE)
           tx == [card_number |-> card_number, timestamp |-> now]
           result == analyze_transaction_velocity(tx, transaction_history)
       IN  /\ transaction_history' = result[2]
           /\ ret' = [kind |-> "velocity", outcome |-> result[1]]
           /\ call' = [call EXCEPT !.log =
                          Append(@, [card |-> card_number, t |-> now.t,
                                     outcome |-> result[1]])]
    /\ UNCHANGED <<transactions_db, alerts_db, is_trained, response, concVars>>

NextVelocity == \E card_number \in VelCards, gap \in Gaps : VelocityCall(card_number, gap)

SpecVelocity == InitVelocity /\ [][NextVelocity]_vars

---------------------------------------------------------------------------
(* _analyze_transaction_velocity run by several request threads at once.      *)
(* risk_service is one object shared by the threads of the server and the     *)
(* method takes no lock, so the threads interleave between its statements.     *)
(* Here self.transaction_history is held as Python holds it: hist_ref maps a   *)
(* card to a list object (0: the key is absent) and heap holds the objects,    *)
(* so that two threads can hold the same list, or an outdated one.             *)

MaxThreads == 3
ConcCards == {"****1234", FreshCard}
ConcStart == 2 * DayMinutes + 720
ConcTimes == {ConcStart, ConcStart + 1}

\* the list "****1234" has before the calls: one timestamp, a minute old
EarlierList == << DateTime(ConcStart - 1, TRUE) >>

ThreadStart(card_number, t) ==
    [ card_number |-> card_number, current_time |-> DateTime(t, TRUE), pc |-> "check_key",
      recent_transactions |-> 0, recent_count |-> 0, target |-> 0, kept |-> <<>>,
      outcome |-> NoFactor ]

InitConc ==
    /\ IdleService
    /\ transaction_history = [c \in AllCards |-> <<>>]
    /\ call = [fn |-> "concurrent"]
    /\ ret = NoRet
    /\ heap = << EarlierList >>
    /\ hist_ref = [c \in AllCards |-> IF c = "****1234" THEN 1 ELSE 0]
    /\ \E n \in 2..MaxThreads :
         threads \in [1..n -> {ThreadStart(c, t) : c \in ConcCards, t \in ConcTimes}]

ConcUnchanged == UNCHANGED <<svcVars, call, ret>>

\* if card_number not in self.transaction_history:
CheckKey(i) ==
    /\ threads[i].pc = "check_key"
    /\ threads' = [threads EXCEPT ![i].pc =
                      IF hist_ref[threads[i].card_number] = 0 THEN "init_key" ELSE "read_list"]
    /\ UNCHANGED <<heap, hist_ref>>
    /\ ConcUnchanged

\* self.transaction_history[card_number] = []
InitKey(i) ==
    /\ threads[i].pc = "init_key"
    /\ heap' = Append(heap, <<>>)
    /\ hist_ref' = [hist_ref EXCEPT ![threads[i].card_number] = Len(heap) + 1]
    /\ threads' = [threads EXCEPT ![i].pc = "read_list"]
    /\ ConcUnchanged

\* recent_transactions = self.transaction_history[card_number]
ReadList(i) ==
    /\ threads[i].pc = "read_list"
    /\ threads' = [threads EXCEPT ![i].recent_transactions = hist_ref[threads[i].card_number],
                                  ![i].pc = "count"]
    /\ UNCHANGED <<heap, hist_ref>>
    /\ ConcUnchanged

\* recent_count = sum(1 for t in recent_transactions if t > five_min_ago)
CountRecent(i) ==
    /\ threads[i].pc = "count"
    /\ threads' = [threads EXCEPT
                      ![i].recent_count = RecentCount(heap[threads[i].recent_transactions],
                                                      threads[i].current_time),
                      ![i].pc = "lookup"]
    /\ UNCHANGED <<heap, hist_ref>>
    /\ ConcUnchanged

\* self.transaction_history[card_number]  (the list about to be appended to)
LookupList(i) ==
    /\ threads[i].pc = "lookup"
    /\ threads' = [threads EXCEPT ![i].target = hist_ref[threads[i].card_number],
                                  ![i].pc = "append"]
    /\ UNCHANGED <<heap, hist_ref>>
    /\ ConcUnchanged

\* .append(current_time)
AppendTime(i) ==
    /\ threads[i].pc = "append"
    /\ heap' = [heap EXCEPT ![threads[i].target] = Append(@, threads[i].current_time)]
    /\ threads' = [threads EXCEPT ![i].pc = "prune"]
    /\ UNCHANGED hist_ref
    /\ ConcUnchanged

\* [t for t in self.transaction_history[card_number] if t > day_ago]
PruneList(i) ==
    /\ threads[i].pc = "prune"
    /\ threads' = [threads EXCEPT
                      ![i].kept = KeepNewer(heap[hist_ref[threads[i].card_number]],
                                            threads[i].current_time.t - DayMinutes),
                      ![i].pc = "assign"]
    /\ UNCHANGED <<heap, hist_ref>>
    /\ ConcUnchanged

\* self.transaction_history[card_number] = <the new list>, then the return
AssignList(i) ==
    /\ threads[i].pc = "assign"
    /\ heap' = Append(heap, threads[i].kept)
    /\ hist_ref' = [hist_ref EXCEPT ![threads[i].card_number] = Len(heap) + 1]
    /\ threads' = [threads EXCEPT ![i].outcome = VelocityFactor(threads[i].recent_count),
                                  ![i].pc = "done"]
    /\ ConcUnchanged

NextConc ==
    \/ \E i \in DOMAIN threads : CheckKey(i)
    \/ \E i \in DOMAIN threads : InitKey(i)
    \/ \E i \in DOMAIN threads : ReadList(i)
    \/ \E i \in DOMAIN threads : CountRecent(i)
    \/ \E i \in DOMAIN threads : LookupList(i)
    \/ \E i \in DOMAIN threads : AppendTime(i)
    \/ \E i \in DOMAIN threads : PruneList(i)
    \/ \E i \in DOMAIN threads : AssignList(i)

SpecConc == InitConc /\ [][NextConc]_vars

---------------------------------------------------------------------------
(* Properties *)

Member(x, seq) == \E i \in 1..Len(seq) : seq[i] = x

\* C1: for every transaction whose amount is greater than 5000 the rule engine
\* returns risk_score >= 0.4 and a factors list containing 'high_amount',
\* whatever the merchant and the location are.
C1_HighAmountFlagged ==
    (ret.kind = "rules" /\ call.tx.amount > 500000) =>
        /\ ret.result.risk_score >= 4000
        /\ Member("high_amount", ret.result.factors)

\* an amount above 5000 with a merchant and a location that add nothing
C1_Witness ==
    /\ ret.kind = "rules"
    /\ call.tx.amount = 500001
    /\ call.tx.merchant = "Netflix.com"
    /\ call.tx.location = "Los Gatos, CA, US"
    /\ ret.result.risk_score = 4000

\* C2: whatever the transaction, the history and the velocity state, the
\* assessment's risk_score is min(1, sum of weight x value over the factors it
\* lists) and lies in [0, 1], however many analyzers fire.
C2_RiskScoreCapped ==
    ret.kind = "scored" =>
        LET fs == ret.risk_analysis.factors
            products == [i \in 1..Len(fs) |-> (fs[i].weight * fs[i].value) \div Scale]
        IN  /\ \A i \in 1..Len(fs) : (fs[i].weight * fs[i].value) % Scale = 0
            /\ ret.risk_analysis.risk_score = Min(Scale, SumSeq(products))
            /\ 0 <= ret.risk_analysis.risk_score
            /\ ret.risk_analysis.risk_score <= Scale

\* five analyzers fire at once (amount, velocity, location, time, merchant)
C2_Witness ==
    /\ ret.kind = "scored"
    /\ Len(ret.risk_analysis.factors) = 5
    /\ ret.risk_analysis.risk_score = 7250

\* the order of doubles, on the model's scores
ScoreLeq(s1, s2) ==
    \/ s1.units < s2.units
    \/ s1.units = s2.units /\ (s1.short \/ ~s2.short)

\* score >= bound and score < bound for a bound in units that is itself a double
ScoreGeq(s, bound) == s.units > bound \/ (s.units = bound /\ ~s.short)
ScoreBelow(s, bound) == ~ScoreGeq(s, bound)

Severity(action) ==
    CASE action = "APPROVE" -> 0
      [] action = "MONITOR" -> 1
      [] action = "REVIEW"  -> 2
      [] action = "BLOCK"   -> 3

\* scores on, just under and just over each threshold, and the two ends
ProbeScores ==
    { [units |-> u, short |-> b] :
        u \in {0, 39990, 40000, 40010, 59990, 60000, 60010, 79990, 80000, 80010, 110000},
        b \in BOOLEAN }

\* C3: determine_final_decision maps the fused score to exactly one action by the
\* ladder: score >= 0.8 BLOCK, 0.6 <= score < 0.8 REVIEW, 0.4 <= score < 0.6
\* MONITOR, score < 0.4 APPROVE; the action depends on the score alone and a
\* higher score never yields a less severe action.
C3_ActionLadder ==
    ret.kind = "decided" =>
        LET s == ret.final_score
            a == ret.final_decision.action
        IN  /\ a \in {"APPROVE", "MONITOR", "REVIEW", "BLOCK"}
            /\ (a = "BLOCK") <=> ScoreGeq(s, 80000)
            /\ (a = "REVIEW") <=> (ScoreGeq(s, 60000) /\ ScoreBelow(s, 80000))
            /\ (a = "MONITOR") <=> (ScoreGeq(s, 40000) /\ ScoreBelow(s, 60000))
            /\ (a = "APPROVE") <=> ScoreBelow(s, 40000)
            /\ \A s2 \in ProbeScores :
                 /\ ScoreLeq(s, s2) => Severity(a) <= Severity(decide_action(s2))
                 /\ ScoreLeq(s2, s) => Severity(decide_action(s2)) <= Severity(a)

\* a score of exactly 0.6 is decided REVIEW
C3_Witness ==
    /\ ret.kind = "decided"
    /\ ret.final_score = [units |-> 60000, short |-> FALSE]
    /\ ret.final_decision.action = "REVIEW"

\* C4: the fused score is 0.4 x rule + 0.3 x risk + 0.3 x combined_fraud_probability
\* when an ML prediction is present and 0.6 x rule + 0.4 x risk when it is absent
\* (no ML term, no ML weights); the reported score is that value rounded to three
\* decimals and the confidence is the risk assessment's confidence.
C4_FusionFormula ==
    ret.kind = "decided" =>
        LET b == call.fraud_analysis.risk_score
            a == call.risk_analysis.risk_score
            expected == IF call.ml_prediction.present
                        THEN 4 * b + 3 * a + 3 * call.ml_prediction.combined_fraud_probability
                        ELSE 6 * b + 4 * a
            reported == 100 * ret.final_decision.final_risk_score
        IN  /\ ret.final_score.units = expected
            /\ reported - expected <= 50
            /\ expected - reported <= 50
            /\ ret.final_decision.confidence = call.risk_analysis.confidence

\* without a prediction, rule 0.7 and risk 0.21 fuse to 0.504
C4_Witness ==
    /\ ret.kind = "decided"
    /\ ~call.ml_prediction.present
    /\ call.fraud_analysis.risk_score = 7000
    /\ call.risk_analysis.risk_score = 2100
    /\ ret.final_decision.final_risk_score = 504
    /\ ret.final_decision.confidence = call.risk_analysis.confidence

\* C5: for every transaction, history, velocity state and ML outcome (absent, or
\* a probability in [0, 1]) the final_risk_score lies in [0, 1], although the rule
\* score that enters the fusion is not capped and reaches 1.1.
C5_FinalScoreInUnitInterval ==
    ret.kind = "scored" =>
        /\ ret.final_decision.final_risk_score >= 0
        /\ ret.final_decision.final_risk_score <= 1000

\* rule score 1.1, risk score 0.725 and probability 1 fuse to 0.9575
C5_Witness ==
    /\ ret.kind = "scored"
    /\ ret.fraud_analysis.risk_score = 11000
    /\ ret.risk_analysis.risk_score = 7250
    /\ call.ml_prediction = Prediction(Scale)
    /\ ret.final_decision.final_risk_score \in {957, 958}

\* the calls made for one card, in order
CardCalls(card) == SelectSeq(call.log, LAMBDA e : e.card = card)

Flagged(e) == e.outcome.kind = "factor" /\ e.outcome.factor.name = "velocity_check"

\* the first n calls of the list lie within five minutes of each other
InWindow(calls, n) ==
    /\ Len(calls) >= n
    /\ \A i, j \in 1..n : calls[i].t - calls[j].t < FiveMinutes

\* the first three calls of the list are ten minutes apart
TenApart(calls) ==
    /\ Len(calls) >= 3
    /\ calls[2].t - calls[1].t = 10
    /\ calls[3].t - calls[2].t = 10

\* C6 as stated: from an empty history, three calls for a card within five
\* minutes give no velocity_check factor on the 1st and 2nd call and give one on
\* the 3rd call and on later calls inside the window; three calls ten minutes
\* apart give none.
C6_FactorOnThirdCall ==
    call.fn = "velocity" =>
        \A card \in VelCards :
            LET calls == CardCalls(card)
            IN  /\ InWindow(calls, 3) =>
                     /\ ~Flagged(calls[1])
                     /\ ~Flagged(calls[2])
                     /\ \A k \in 3..Len(calls) : InWindow(calls, k) => Flagged(calls[k])
                /\ TenApart(calls) => \A k \in 1..3 : ~Flagged(calls[k])

\* C6: from an empty history, calls for a card within five minutes give no
\* velocity_check factor on the 1st, 2nd and 3rd call (each counts fewer than three
\* earlier timestamps) and give one on the 4th call and on later calls inside the
\* window, with value min(1, earlier calls / 5); three calls ten minutes apart
\* give none.
C6_FactorOnFourthCall ==
    call.fn = "velocity" =>
        \A card \in VelCards :
            LET calls == CardCalls(card)
            IN  /\ \A k \in 1..Len(calls) :
                     InWindow(calls, k) =>
                        IF k <= 3 THEN ~Flagged(calls[k])
                        ELSE /\ Flagged(calls[k])
                             /\ calls[k].outcome.factor.value = Min(Scale, ((k - 1) * Scale) \div 5)
                /\ TenApart(calls) => \A k \in 1..3 : ~Flagged(calls[k])

\* four calls for one card in three minutes: the fourth is the first one flagged
C6_Witness ==
    /\ call.fn = "velocity"
    /\ LET calls == CardCalls(FreshCard)
       IN  /\ Len(calls) = 4
           /\ InWindow(calls, 4)
           /\ ~Flagged(calls[3])
           /\ Flagged(calls[4])
           /\ calls[4].outcome.factor.value = 6000

\* C7: once given an already-validated transaction, scoring always completes
\* with a verdict: no valid amount, stored history and velocity state makes the
\* scoring path raise, so POST /api/transactions never answers 500 to validated
\* data.
C7_ScoringCompletes ==
    ~(response.status = 500 /\ response.error = "Transaction analysis failed")

\* C9: when the model is not trained, or predict_fraud_probability raises, the
\* request still answers 200 with a decision that is stored, ml_prediction is
\* absent and the score is 0.6 x rule + 0.4 x risk.
C9_MLFailsClosed ==
    (call.fn = "analyze_transaction" /\ call.ml \in {"not_trained", "raised"}) =>
        /\ response.status = 200
        /\ response.body.ml_prediction = NoPrediction
        /\ 100 * response.body.final_decision.final_risk_score
             = 6 * response.body.fraud_analysis.risk_score
               + 4 * response.body.risk_analysis.risk_score
        /\ Member(response.body, transactions_db)

\* a trained model raises inside a request, which is answered with a decision
C9_Witness ==
    /\ call.fn = "analyze_transaction"
    /\ call.ml = "raised"
    /\ is_trained
    /\ response.status = 200
    /\ response.body.ml_prediction = NoPrediction
    /\ response.body.amount = 500000
    /\ Member(response.body, transactions_db)

\* the last request was scenario A: 15000.00 at 'Luxury Store' in 'New York, US',
\* answered with a decision, for a card with no earlier record and with no ML
\* prediction
ScenarioA ==
    /\ call.fn = "analyze_transaction"
    /\ response.status = 200
    /\ response.body.amount = 1500000
    /\ response.body.merchant = "Luxury Store"
    /\ response.body.location = "New York, US"
    /\ response.body.ml_prediction = NoPrediction
    /\ Cardinality({i \in 1..Len(transactions_db) :
                      transactions_db[i].card_number = response.body.card_number}) = 1

FactorValues(factors, name) ==
    {factors[i].value : i \in {j \in 1..Len(factors) : factors[j].name = name}}

\* C10 as stated: in scenario A the rule engine reports 'high_amount' with score
\* >= 0.4, the risk engine emits amount_anomaly with value 0.9, and the final
\* action is REVIEW or BLOCK.
C10_ScenarioAReviewOrBlock ==
    ScenarioA =>
        /\ Member("high_amount", response.body.fraud_analysis.factors)
        /\ response.body.fraud_analysis.risk_score >= 4000
        /\ FactorValues(response.body.risk_analysis.factors, "amount_anomaly") = {9000}
        /\ response.body.final_decision.action \in {"REVIEW", "BLOCK"}

\* C10: in scenario A the rule engine reports 'high_amount' with score >= 0.4
\* (exactly 0.4), the risk engine emits amount_anomaly with value 0.9, and the
\* final action under 0.6 x rule + 0.4 x risk is APPROVE: the fused score is
\* 0.33, or 0.354 when the hour is one the time analyzer flags, below 0.4.
C10_ScenarioAApproved ==
    ScenarioA =>
        /\ Member("high_amount", response.body.fraud_analysis.factors)
        /\ response.body.fraud_analysis.risk_score = 4000
        /\ FactorValues(response.body.risk_analysis.factors, "amount_anomaly") = {9000}
        /\ response.body.final_decision.final_risk_score
             = (IF HourOf(response.body.timestamp) \in 2..5 THEN 354 ELSE 330)
        /\ response.body.final_decision.action = "APPROVE"

\* scenario A at noon: fused score 0.33, approved
C10_Witness ==
    /\ ScenarioA
    /\ HourOf(response.body.timestamp) = 12
    /\ response.body.final_decision.final_risk_score = 330
    /\ response.body.final_decision.action = "APPROVE"

\* how often a timestamp occurs in a list
Occurrences(list, t) == Cardinality({k \in 1..Len(list) : list[k].t = t})

\* the calls made for a card with a timestamp
CallsWith(card, t) ==
    {i \in 1..Len(threads) : threads[i].card_number = card /\ threads[i].current_time.t = t}

\* the list a card has now
ListOf(card) == IF hist_ref[card] = 0 THEN <<>> ELSE heap[hist_ref[card]]

\* C8: when several requests for the same card run _analyze_transaction_velocity
\* concurrently, no update is lost: after all of them finish, the card's history
\* holds the timestamp of every one of the calls (all lie within the 24 hours),
\* under every interleaving; a card called by one thread alone holds what a
\* call on its own leaves.
C8_NoLostUpdate ==
    (call.fn = "concurrent" /\ \A i \in 1..Len(threads) : threads[i].pc = "done") =>
        /\ \A card \in ConcCards, t \in ConcTimes :
             Occurrences(ListOf(card), t) >= Cardinality(CallsWith(card, t))
        /\ \A i \in 1..Len(threads) :
             (\A j \in 1..Len(threads) :
                 threads[j].card_number = threads[i].card_number => j = i)
             => ListOf(threads[i].card_number)
                  = AppendAndPrune(IF threads[i].card_number = "****1234"
                                   THEN EarlierList ELSE <<>>,
                                   threads[i].current_time)

\* the last request was scenario B: exactly 5000.00 at 'Cash Advance' in
\* 'Moscow, Russia', answered with a decision, for a card with no earlier record
\* and with no ML prediction
ScenarioB ==
    /\ call.fn = "analyze_transaction"
    /\ response.status = 200
    /\ response.body.amount = 500000
    /\ response.body.merchant = "Cash Advance"
    /\ response.body.location = "Moscow, Russia"
    /\ response.body.ml_prediction = NoPrediction
    /\ Cardinality({i \in 1..Len(transactions_db) :
                      transactions_db[i].card_number = response.body.card_number}) = 1

\* <<value, weight>> of the factors of a name
FactorEntries(factors, name) ==
    {<<factors[i].value, factors[i].weight>> :
        i \in {j \in 1..Len(factors) : factors[j].name = name}}

\* C11: in scenario B the rule engine fires risky_location (+0.4) and
\* risky_merchant (+0.3) and no high_amount, the risk engine fires location_risk
\* and merchant_risk each with value 0.7 and weight 0.15, and the final action is
\* REVIEW or BLOCK.
C11_ScenarioBReviewOrBlock ==
    ScenarioB =>
        LET rule == response.body.fraud_analysis
            risk == response.body.risk_analysis
        IN  /\ Member("risky_location", rule.factors)
            /\ Member("risky_merchant", rule.factors)
            /\ ~Member("high_amount", rule.factors)
            /\ rule.risk_score = 2000 + 4000 + 3000    \* with elevated_amount
            /\ FactorEntries(risk.factors, "location_risk") = {<<7000, 1500>>}
            /\ FactorEntries(risk.factors, "merchant_risk") = {<<7000, 1500>>}
            /\ response.body.final_decision.action \in {"REVIEW", "BLOCK"}

\* scenario B at noon: rule 0.9, risk 0.36, fused 0.684, REVIEW
C11_Witness ==
    /\ ScenarioB
    /\ response.body.fraud_analysis.risk_score = 9000
    /\ response.body.risk_analysis.risk_score = 3600
    /\ response.body.final_decision.final_risk_score = 684
    /\ response.body.final_decision.action = "REVIEW"

\* C12: a scored transaction with no rule-engine factor (rule score 0) and no ML
\* prediction is decided APPROVE, whatever factors, history and velocity state the
\* risk engine reports on; scenario C is such a transaction.
C12_NoRuleFactorApproved ==
    ret.kind = "scored" =>
        /\ (ret.fraud_analysis.factors = <<>> /\ ~call.ml_prediction.present)
             => /\ ret.fraud_analysis.risk_score = 0
                /\ ret.final_decision.action = "APPROVE"
        /\ call.tx = ScenarioCTx => ret.fraud_analysis.factors = <<>>

\* a transaction without rule factors on which four risk analyzers fire
C12_Witness ==
    /\ ret.kind = "scored"
    /\ ret.fraud_analysis.factors = <<>>
    /\ ~call.ml_prediction.present
    /\ Len(ret.risk_analysis.factors) = 4
    /\ ret.final_decision.action = "APPROVE"

\* scenario C scored without a prediction: no factor of either engine
C12_WitnessScenarioC ==
    /\ ret.kind = "scored"
    /\ call.tx = ScenarioCTx
    /\ ~call.ml_prediction.present
    /\ ret.risk_analysis.factors = <<>>
    /\ ret.final_decision.action = "APPROVE"

\* C13: the rule engine's score is the uncapped sum of its fixed increments:
\* +0.4 'high_amount' if amount > 5000, else +0.2 'elevated_amount' if
\* 2000 < amount <= 5000, +0.4 'risky_location' if the location matches, +0.3
\* 'risky_merchant' if the merchant matches; high_amount and elevated_amount never
\* appear together and the factor list names exactly the increments added.
C13_RuleScoreIsSum ==
    ret.kind = "rules" =>
        LET tx == call.tx
            r == ret.result
            high == tx.amount > 500000
            elevated == 200000 < tx.amount /\ tx.amount <= 500000
            location == is_high_risk_location[tx.location]
            merchant == is_high_risk_merchant[tx.merchant]
        IN  /\ r.risk_score = (IF high THEN 4000 ELSE IF elevated THEN 2000 ELSE 0)
                                + (IF location THEN 4000 ELSE 0)
                                + (IF merchant THEN 3000 ELSE 0)
            /\ r.factors = (IF high THEN <<"high_amount">>
                            ELSE IF elevated THEN <<"elevated_amount">> ELSE <<>>)
                           \o (IF location THEN <<"risky_location">> ELSE <<>>)
                           \o (IF merchant THEN <<"risky_merchant">> ELSE <<>>)
            /\ ~(Member("high_amount", r.factors) /\ Member("elevated_amount", r.factors))

\* all three kinds fire: the score is 1.1
C13_Witness ==
    /\ ret.kind = "rules"
    /\ ret.result.risk_score = 11000
    /\ ret.result.factors = <<"high_amount", "risky_location", "risky_merchant">>

\* C14: the risk_level of an assessment is the band of the risk_score of the same
\* assessment: >= 0.8 CRITICAL, >= 0.6 HIGH, >= 0.4 MEDIUM, >= 0.2 LOW, else
\* MINIMAL.
C14_LevelIsBandOfScore ==
    ret.kind = "scored" =>
        LET score == ret.risk_analysis.risk_score
            level == ret.risk_analysis.risk_level
        IN  /\ (level = "CRITICAL") <=> score >= 8000
            /\ (level = "HIGH") <=> (6000 <= score /\ score < 8000)
            /\ (level = "MEDIUM") <=> (4000 <= score /\ score < 6000)
            /\ (level = "LOW") <=> (2000 <= score /\ score < 4000)
            /\ (level = "MINIMAL") <=> score < 2000

\* an assessment with score exactly 0.4, the lower edge of MEDIUM
C14_Witness ==
    /\ ret.kind = "scored"
    /\ ret.risk_analysis.risk_score = 4000
    /\ ret.risk_analysis.risk_level = "MEDIUM"

\* weights of the listed factors, summed
WeightSum(factors) == SumSeq([i \in 1..Len(factors) |-> factors[i].weight])

\* C15: the confidence is exactly 0.3 when no factor is active and otherwise
\* min(1.0, sum of the active factors' weights + min(0.2, 0.05 x their number));
\* it lies in [0, 1].
C15_Confidence ==
    ret.kind = "scored" =>
        LET factors == ret.risk_analysis.factors
            n == Len(factors)
            bonus == IF 500 * n < 2000 THEN 500 * n ELSE 2000
            raw == WeightSum(factors) + bonus
            confidence == ret.risk_analysis.confidence
        IN  /\ n = 0 => confidence = 3000
            /\ n > 0 => confidence = (IF raw < Scale THEN raw ELSE Scale)
            /\ 0 <= confidence /\ confidence <= Scale

\* five factors: weights 0.85 and bonus 0.2 are capped at 1.0
C15_Witness ==
    /\ ret.kind = "scored"
    /\ Len(ret.risk_analysis.factors) = 5
    /\ WeightSum(ret.risk_analysis.factors) = 8500
    /\ ret.risk_analysis.confidence = Scale

\* no factor: the floor
C15_WitnessFloor ==
    /\ ret.kind = "scored"
    /\ ret.risk_analysis.factors = <<>>
    /\ ret.risk_analysis.confidence = 3000

\* C16: after every call of the velocity analyzer for a card with timestamp ts,
\* every timestamp left in that card's history is later than ts - 24h, for every
\* sequence of calls and every order of timestamps.
C16_HistoryWithinDay ==
    (call.fn = "velocity" /\ call.log # <<>>) =>
        LET last == call.log[Len(call.log)]
            list == transaction_history[last.card]
        IN  \A i \in 1..Len(list) : list[i].t > last.t - DayMinutes

\* a call whose prune removed a timestamp exactly 24 hours old
C16_Witness ==
    /\ call.fn = "velocity"
    /\ call.log # <<>>
    /\ LET last == call.log[Len(call.log)]
       IN  /\ \E i \in 1..Len(call.log) - 1 :
                /\ call.log[i].card = last.card
                /\ call.log[i].t = last.t - DayMinutes
           /\ Len(transaction_history[last.card]) < Len(CardCalls(last.card))

\* the stored records decided BLOCK or REVIEW, in the order they were stored
AlertedRecords ==
    SelectSeq(transactions_db, LAMBDA r : r.final_decision.action \in {"BLOCK", "REVIEW"})

\* C17: after any sequence of analyses the alerts are, one for one and in order,
\* the stored transactions decided BLOCK or REVIEW: each such transaction has
\* exactly one alert, of severity CRITICAL for BLOCK and HIGH for REVIEW, and a
\* transaction decided APPROVE or MONITOR has none.
C17_AlertsIffBlockOrReview ==
    /\ Len(alerts_db) = Len(AlertedRecords)
    /\ \A i \in 1..Len(alerts_db) :
         LET alert == alerts_db[i]
             record == AlertedRecords[i]
         IN  /\ alert.transaction_id = record.transaction_id
             /\ alert.action_required = record.final_decision.action
             /\ alert.severity = (IF record.final_decision.action = "BLOCK"
                                  THEN "CRITICAL" ELSE "HIGH")
             /\ alert.amount = record.amount

\* two requests answered, one decided REVIEW with its HIGH alert and one decided
\* APPROVE without an alert
C17_Witness ==
    /\ StoredRequests(transactions_db) = 2
    /\ \E i \in 1..Len(transactions_db) :
         /\ transactions_db[i].timestamp.aware
         /\ transactions_db[i].final_decision.action = "APPROVE"
    /\ \E i \in 1..Len(transactions_db) :
         /\ transactions_db[i].timestamp.aware
         /\ transactions_db[i].final_decision.action = "REVIEW"
    /\ \E i \in 1..Len(alerts_db) : alerts_db[i].severity = "HIGH"
    /\ Len(alerts_db) < Len(transactions_db)

\* C18: every validated transaction accepted by the service, through the single
\* entry point or as an item of a batch, is stored with exactly one final decision
\* whose action is one of APPROVE, MONITOR, REVIEW, BLOCK.
C18_EveryStoredDecided ==
    \A i \in 1..Len(transactions_db) :
        /\ HasKey(transactions_db[i], "final_decision")
        /\ transactions_db[i].final_decision.action \in {"APPROVE", "MONITOR", "REVIEW", "BLOCK"}

\* the configured weight of each kind of factor
ConfiguredWeight(name) ==
    CASE name = "amount_anomaly"     -> 2500
      [] name = "velocity_check"     -> 2000
      [] name = "location_risk"      -> 1500
      [] name = "time_anomaly"       -> 1000
      [] name = "merchant_risk"      -> 1500
      [] name = "card_usage_pattern" -> 1500

FactorKinds ==
    {"amount_anomaly", "velocity_check", "location_risk", "time_anomaly",
     "merchant_risk", "card_usage_pattern"}

\* C19: every RiskFactor of an assessment is an active signal: its kind is one of
\* the six and appears at most once, its weight is the configured weight of its
\* kind, weight and value lie in [0, 1] with value > 0, and an analyzer whose
\* condition does not hold leaves no entry (no time_anomaly at a usual hour, no
\* amount_anomaly for an amount of at most 2000, no card_usage_pattern with fewer
\* than five history entries).
C19_FactorsAreActive ==
    ret.kind = "scored" =>
        LET factors == ret.risk_analysis.factors
        IN  /\ \A i \in 1..Len(factors) :
                 /\ factors[i].name \in FactorKinds
                 /\ factors[i].weight = ConfiguredWeight(factors[i].name)
                 /\ 0 <= factors[i].weight /\ factors[i].weight <= Scale
                 /\ 0 < factors[i].value /\ factors[i].value <= Scale
            /\ \A i, j \in 1..Len(factors) : factors[i].name = factors[j].name => i = j
            /\ HourOf(call.tx.timestamp) \notin 2..5
                 => \A i \in 1..Len(factors) : factors[i].name # "time_anomaly"
            /\ call.tx.amount <= 200000
                 => \A i \in 1..Len(factors) : factors[i].name # "amount_anomaly"
            /\ Len(call.user_history) < 5
                 => \A i \in 1..Len(factors) : factors[i].name # "card_usage_pattern"

\* an assessment at noon with velocity, location and merchant factors and no
\* entry for the analyzers that did not fire
C19_Witness ==
    /\ ret.kind = "scored"
    /\ HourOf(call.tx.timestamp) = 12
    /\ [i \in 1..Len(ret.risk_analysis.factors) |-> ret.risk_analysis.factors[i].name]
         = <<"velocity_check", "location_risk", "merchant_risk">>

\* C20: with a non-empty history the amount analyzer takes the mean and the max
\* of the amounts of up to the last 30 entries and, whenever current > 3 x mean
\* and current > 1.5 x max, returns an amount_anomaly factor with value
\* min(1.0, current / (mean x 5)); otherwise it returns no factor.
C20_AmountAnomalyWithHistory ==
    (call.fn = "score" /\ ret.kind # "none" /\ call.user_history # <<>>) =>
        LET h == call.user_history
            last == SubSeq(h, Max(1, Len(h) - 29), Len(h))
            n == Len(last)
            total == SumSeq([i \in 1..n |-> last[i].amount])
            largest == CHOOSE a \in {last[i].amount : i \in 1..n} :
                           \A i \in 1..n : last[i].amount <= a
            current == call.tx.amount
            anomalous == current * n > 3 * total /\ 2 * current > 3 * largest
        IN  IF anomalous
            THEN /\ ret.kind = "scored"
                 /\ FactorValues(ret.risk_analysis.factors, "amount_anomaly")
                      = {Min(Scale, (current * n * Scale) \div (5 * total))}
            ELSE ret.kind = "scored"
                   => FactorValues(ret.risk_analysis.factors, "amount_anomaly") = {}

\* a card's velocity history after the first k calls of the list
RECURSIVE HistoryAfter(_, _)
HistoryAfter(calls, k) ==
    IF k = 0 THEN <<>>
    ELSE AppendAndPrune(HistoryAfter(calls, k - 1), DateTime(calls[k].t, TRUE))

\* the recorded timestamps in the trailing five minutes of ts: ts - 5min < t <= ts
TrailingCount(list, ts) ==
    Cardinality({i \in 1..Len(list) : list[i].t > ts - FiveMinutes /\ list[i].t <= ts})

\* C21: for every sequence of velocity calls on a card, timestamps out of order
\* included, the count used for a call with timestamp ts is the number of
\* previously recorded timestamps t of the card with ts - 5min < t <= ts (later
\* timestamps are not counted); a factor is returned iff that count is at least 3,
\* and its value is min(1.0, count / 5).
C21_CountInTrailingWindow ==
    call.fn = "velocity" =>
        \A card \in VelCards :
            LET calls == CardCalls(card)
            IN  \A k \in 1..Len(calls) :
                    LET count == TrailingCount(HistoryAfter(calls, k - 1), calls[k].t)
                    IN  /\ Flagged(calls[k]) <=> count >= 3
                        /\ Flagged(calls[k]) =>
                             calls[k].outcome.factor.value = Min(Scale, (count * Scale) \div 5)

\* the call the last velocity step made
LastCall(log) == log[Len(log)]

Recorded(list, t) == \E i \in 1..Len(list) : list[i] = DateTime(t, TRUE)

C23_HistoryTimeOrdered ==
    call.fn = "velocity" =>
        \A card \in VelCards :
            LET list == transaction_history[card]
            IN  \A i, j \in 1..Len(list) : i < j => list[i].t <= list[j].t

---------------------------------------------------------------------------
(* The usage-pattern analyzer on the history the service reads from its store *)

\* a store left by n earlier analyses of one card, one a minute, in arrival order:
\* the first k at one merchant, the later ones at another
MaxStored == 22
StoredRecord(i, merchant) ==
    [ transaction_id |-> "TXN_A", timestamp |-> DateTime(DayMinutes + i, TRUE),
      amount |-> 2599, merchant |-> merchant, location |-> "Los Gatos, CA, US",
      card_number |-> FreshCard ]

InitPattern ==
    /\ alerts_db = <<>>
    /\ is_trained = FALSE
    /\ response = NoResponse
    /\ IdleThreads
    /\ transaction_history = [c \in AllCards |-> <<>>]
    /\ \E n \in 0..MaxStored, k \in 0..MaxStored, older \in {"Best Buy", "Luxury Store"} :
         /\ k <= n
         /\ transactions_db =
              [i \in 1..n |-> StoredRecord(i, IF i <= k THEN older ELSE "Netflix.com")]
    /\ \E merchant \in {"Best Buy", "Luxury Store", "Netflix.com"} :
         call = [fn |-> "pattern",
                 tx |-> StoredRecord(MaxStored + 1, merchant)]
    /\ ret = NoRet

\* get_user_transaction_history and _analyze_usage_pattern, as analyze_transaction
\* and calculate_comprehensive_risk_score chain them
PatternCall ==
    /\ call.fn = "pattern"
    /\ ret = NoRet
    /\ LET user_history == get_user_transaction_history(transactions_db, call.tx.card_number)
       IN  ret' = [kind |-> "pattern", outcome |-> analyze_usage_pattern(call.tx, user_history)]
    /\ UNCHANGED <<transactions_db, alerts_db, transaction_history, is_trained, response,
                   call, concVars>>

NextPattern == PatternCall

SpecPattern == InitPattern /\ [][NextPattern]_vars

\* the records of the card that have fewer than n newer records of the card
MostRecent(db, card, n) ==
    {i \in 1..Len(db) :
        /\ db[i].card_number = card
        /\ Cardinality({j \in 1..Len(db) : /\ db[j].card_number = card
                                           /\ db[j].timestamp.t > db[i].timestamp.t}) < n}

\* C24: when the service scores a transaction with the card's stored history, the
\* usage-pattern analyzer compares the current merchant's words with the merchants
\* of the 20 most recent prior transactions of the card; it returns the factor of
\* value 0.5 iff the card has at least 5 prior transactions, more than 10 are
\* compared and none shares a word with the current merchant.
C24_PatternUsesMostRecent ==
    ret.kind = "pattern" =>
        LET card == call.tx.card_number
            prior == MostRecent(transactions_db, card, HistoryLimit)
            compared == MostRecent(transactions_db, card, PatternLookback)
            historical_words == UNION {UpperWordsOf[transactions_db[i].merchant] : i \in compared}
            expected == /\ Cardinality(prior) >= 5
                        /\ Cardinality(compared) > 10
                        /\ UpperWordsOf[call.tx.merchant] \cap historical_words = {}
        IN  IF expected
            THEN /\ ret.outcome.kind = "factor"
                 /\ ret.outcome.factor.name = "card_usage_pattern"
                 /\ ret.outcome.factor.value = 5000
            ELSE ret.outcome.kind = "none"

---------------------------------------------------------------------------
\* C25 as stated: 0.3 is a floor of the confidence: for every assessment, with any
\* set of active factors, the confidence returned is at least 0.3.
C25_ConfidenceFloor ==
    ret.kind = "scored" => ret.risk_analysis.confidence >= 3000

\* C25: the confidence is 0.3 when no factor is active, and it is never below
\* 0.15; it is below 0.3 exactly when a single factor is active and that factor is
\* not amount_anomaly (its weight plus 0.05 is then 0.15, 0.20 or 0.25).
C25_ConfidenceAtLeastFifteen ==
    ret.kind = "scored" =>
        LET factors == ret.risk_analysis.factors
            confidence == ret.risk_analysis.confidence
        IN  /\ factors = <<>> => confidence = 3000
            /\ confidence >= 1500
            /\ confidence < 3000 <=>
                 (Len(factors) = 1 /\ factors[1].name # "amount_anomaly")

\* an assessment whose one factor is the time anomaly: confidence 0.15
C25_Witness ==
    /\ ret.kind = "scored"
    /\ Len(ret.risk_analysis.factors) = 1
    /\ ret.risk_analysis.factors[1].name = "time_anomaly"
    /\ ret.risk_analysis.confidence = 1500

---------------------------------------------------------------------------
(* POST /api/transactions on raw request data: validation, then the analysis *)

\* validate_transaction accepting every amount
validate_transaction_any_amount(data) ==
    LET required_fields == {"id", "amount", "merchant", "location", "timestamp", "card_number"}
        missing_fields == required_fields \ DOMAIN data
    IN  IF missing_fields # {}
        THEN [is_valid |-> FALSE, errors |-> {<<"Missing required field", f>> : f \in missing_fields}]
        ELSE [is_valid |-> TRUE, errors |-> {},
              sanitized_data |-> [data EXCEPT !.timestamp = DateTime(@.t, TRUE)]]

\* TransactionValidator.validate_transaction, for requests whose fields, where
\* present, are well-formed: the required fields, the amount range (in cents), and
\* the timestamp made timezone-aware
validate_transaction(data) ==
    LET required_fields == {"id", "amount", "merchant", "location", "timestamp", "card_number"}
        missing_fields == required_fields \ DOMAIN data
    IN  IF missing_fields # {}
        THEN [is_valid |-> FALSE, errors |-> {<<"Missing required field", f>> : f \in missing_fields}]
        ELSE LET errors == IF data.amount < 1 THEN {<<"Amount is below minimum">>}
                           ELSE IF data.amount > 5000000 THEN {<<"Amount exceeds maximum">>}
                           ELSE {}
             IN  IF errors # {}
                 THEN [is_valid |-> FALSE, errors |-> errors]
                 ELSE [is_valid |-> TRUE, errors |-> {},
                       sanitized_data |-> [data EXCEPT !.timestamp = DateTime(@.t, TRUE)]]

\* the 400 answer to a transaction that fails validation
ValidationError(errors) ==
    [status |-> 400, error |-> "Transaction validation failed", validation_errors |-> errors]

\* request bodies: two that pass validation, the same with an amount out of range
\* or a field left out, and an empty body
RawRequests ==
    LET bodies == { [ id |-> "TXN_A", amount |-> p.amount, merchant |-> p.merchant,
                      location |-> p.location,
                      timestamp |-> DateTime(2 * DayMinutes + 720, FALSE),
                      card_number |-> FreshCard ] : p \in StoreProfiles }
    IN  bodies
        \cup {[b EXCEPT !.amount = a] : b \in bodies, a \in {0, 5000001}}
        \cup {[f \in DOMAIN b \ {g} |-> b[f]] : b \in bodies, g \in {"merchant", "card_number"}}
        \cup {<<>>}

\* POST /api/transactions
analyze_transaction_request(data) ==
    IF DOMAIN data = {}
    THEN /\ response' = [status |-> 400, error |-> "No transaction data provided"]
         /\ call' = [fn |-> "analyze_transaction", ml |-> "not_reached"]
         /\ UNCHANGED <<transactions_db, alerts_db, transaction_history, is_trained, ret,
                        concVars>>
    ELSE LET validation_result == validate_transaction(data)
         IN  IF ~validation_result.is_valid
             THEN /\ response' = ValidationError(validation_result.errors)
                  /\ call' = [fn |-> "analyze_transaction", ml |-> "not_reached"]
                  /\ UNCHANGED <<transactions_db, alerts_db, transaction_history, is_trained,
                                 ret, concVars>>
             ELSE analyze_transaction(validation_result.sanitized_data)

NextRequest == \E data \in RawRequests : analyze_transaction_request(data)

SpecRequest == Init /\ [][NextRequest]_vars

\* a request body that is not empty and lacks a required field or carries an
\* amount outside [0.01, 50000.00]
FailsValidation(data) ==
    /\ DOMAIN data # {}
    /\ \/ \E f \in {"id", "amount", "merchant", "location", "timestamp", "card_number"} :
             f \notin DOMAIN data
       \/ data.amount < 1
       \/ data.amount > 5000000

\* C26: a request whose transaction fails validation is answered with the
\* validation failure (status 400, "Transaction validation failed"), which is not
\* the scoring-failure answer, and before any scoring runs: the transaction store,
\* the alert store and every card's velocity history are left unchanged.
C26_InvalidRequestRejected ==
    [][ \A data \in RawRequests :
          (FailsValidation(data) /\ analyze_transaction_request(data)) =>
              /\ response'.status = 400
              /\ response'.error = "Transaction validation failed"
              /\ response' # ServerError("Transaction analysis failed")
              /\ UNCHANGED <<transactions_db, alerts_db, transaction_history>> ]_vars

\* a rejected request after an analysis that stored a record and raised an alert
C26_Witness ==
    /\ response.status = 400
    /\ response.error = "Transaction validation failed"
    /\ Len(transactions_db) = 1
    /\ Len(alerts_db) = 1
    /\ transaction_history[FreshCard] # <<>>

---------------------------------------------------------------------------
\* the ladder applied to a reported score, in thousandths
LadderOfReported(reported) ==
    IF reported >= 800 THEN "BLOCK"
    ELSE IF reported >= 600 THEN "REVIEW"
    ELSE IF reported >= 400 THEN "MONITOR"
    ELSE "APPROVE"

\* C27 as stated: the action of a FinalDecision always agrees with the threshold
\* ladder applied to the final_risk_score reported in the same record: reported
\* score >= 0.8 iff BLOCK, in [0.6, 0.8) iff REVIEW, in [0.4, 0.6) iff MONITOR,
\* < 0.4 iff APPROVE.
C27_ActionAgreesWithReported ==
    ret.kind = "decided" =>
        ret.final_decision.action = LadderOfReported(ret.final_decision.final_risk_score)

\* C27: the action is the ladder's for the fused score before rounding; the
\* reported score is that score rounded to 3 decimals, and the action differs from
\* the ladder applied to the reported score only when the fused score lies less
\* than 0.0005 below a threshold: the reported score is then exactly 0.4, 0.6 or
\* 0.8 and the action is the one of the band below it.
C27_ActionOfUnroundedScore ==
    ret.kind = "decided" =>
        LET s == ret.final_score
            a == ret.final_decision.action
            reported == ret.final_decision.final_risk_score
        IN  /\ a = (IF ScoreGeq(s, 80000) THEN "BLOCK"
                    ELSE IF ScoreGeq(s, 60000) THEN "REVIEW"
                    ELSE IF ScoreGeq(s, 40000) THEN "MONITOR"
                    ELSE "APPROVE")
            /\ a # LadderOfReported(reported) =>
                 /\ reported \in {400, 600, 800}
                 /\ ScoreBelow(s, 100 * reported)
                 /\ s.units >= 100 * reported - 50
                 /\ Severity(a) + 1 = Severity(LadderOfReported(reported))

\* a fused score of 0.5996 reported as 0.6 and decided MONITOR
C27_Witness ==
    /\ ret.kind = "decided"
    /\ ret.final_score.units = 59960
    /\ ret.final_decision.final_risk_score = 600
    /\ ret.final_decision.action = "MONITOR"

---------------------------------------------------------------------------
\* C28: without an ML prediction, a transaction whose risk assessment has
\* risk_level HIGH or CRITICAL (and so recommends additional authentication or
\* blocking) never receives the final action APPROVE.
C28_HighRiskNotApproved ==
    (ret.kind = "scored" /\ ~call.ml_prediction.present
       /\ ret.risk_analysis.risk_level \in {"HIGH", "CRITICAL"}) =>
        ret.final_decision.action # "APPROVE"

---------------------------------------------------------------------------
(* Requests handled at the same time: the tail of analyze_transaction, from the *)
(* append to the transaction store to the append to the alert store            *)

\* each thread holds the combined_result of its request, already scored, and the
\* alert it is building
InitAlerts ==
    /\ IdleService
    /\ transaction_history = [c \in AllCards |-> <<>>]
    /\ call = [fn |-> "concurrent_alerts"]
    /\ ret = NoRet
    /\ heap = <<>>
    /\ hist_ref = [c \in AllCards |-> 0]
    /\ LET result(profile) ==
               LET clean_data == CleanData("TXN_A", profile, 2 * DayMinutes + 720, FreshCard)
               IN  CombinedResult(clean_data, fraud_analyze_transaction(clean_data),
                       calculate_comprehensive_risk_score(clean_data, <<>>,
                                                          transaction_history).assessment,
                       NoPrediction, FALSE)
       IN  \E n \in 2..MaxThreads :
             threads \in [1..n -> {[pc |-> "store", combined_result |-> result(p),
                                    alert |-> [id |-> 0]] : p \in StoreProfiles}]

\* transactions_db.append(combined_result), then the test of the action
AppendRecord(i) ==
    /\ threads[i].pc = "store"
    /\ transactions_db' = Append(transactions_db, threads[i].combined_result)
    /\ threads' = [threads EXCEPT ![i].pc =
                      IF threads[i].combined_result.final_decision.action \in {"BLOCK", "REVIEW"}
                      THEN "build_alert" ELSE "done"]
    /\ UNCHANGED <<alerts_db, transaction_history, is_trained, response, call, ret, heap,
                   hist_ref>>

\* create_alert: the alert dict, its id from len(alerts_db) + 1
BuildAlert(i) ==
    /\ threads[i].pc = "build_alert"
    /\ LET built == create_alert(alerts_db, threads[i].combined_result)
       IN  threads' = [threads EXCEPT ![i].alert = built[Len(built)],
                                      ![i].pc = "append_alert"]
    /\ UNCHANGED <<transactions_db, alerts_db, transaction_history, is_trained, response,
                   call, ret, heap, hist_ref>>

\* create_alert: alerts_db.append(alert)
AppendAlert(i) ==
    /\ threads[i].pc = "append_alert"
    /\ alerts_db' = Append(alerts_db, threads[i].alert)
    /\ threads' = [threads EXCEPT ![i].pc = "done"]
    /\ UNCHANGED <<transactions_db, transaction_history, is_trained, response, call, ret,
                   heap, hist_ref>>

NextAlerts ==
    \/ \E i \in DOMAIN threads : AppendRecord(i)
    \/ \E i \in DOMAIN threads : BuildAlert(i)
    \/ \E i \in DOMAIN threads : AppendAlert(i)

SpecAlerts == InitAlerts /\ [][NextAlerts]_vars

\* C29: alert ids are pairwise distinct, after any sequence of analyses and under
\* any interleaving of concurrently handled requests that each call create_alert:
\* no two alerts in alerts_db share an id.
C29_AlertIdsDistinct ==
    \A i, j \in 1..Len(alerts_db) : i # j => alerts_db[i].id # alerts_db[j].id

---------------------------------------------------------------------------
\* C30: clean_invalid_date_transactions removes only records whose timestamp is
\* the literal 'Invalid Date': every record stored by a successful analysis,
\* single or batch, is still in the transaction store after each cleaning pass of
\* a transaction listing (no analysis stores the timestamp 'Invalid Date').
C30_CleaningKeepsStoredRecords ==
    [][ call'.fn = "get_transactions" =>
          \A k \in 1..Len(transactions_db) :
              Member(transactions_db[k], transactions_db') ]_vars

=============================================================================
